---- MODULE Spec2Model ----
(***************************************************************************)
(* Model of the ingestion and caching subsystem of obsidian-estimator:     *)
(* the ingestion run (worker/ingest.ts), the dataset cache                 *)
(* (worker/datasetCache.ts), the summary store (worker/queueStore.ts), the *)
(* scheduled handler with its detached prune (worker/index.ts), the        *)
(* installation-token provider (worker/githubAuth.ts) and the retry        *)
(* executor (worker/ingest.ts).                                            *)
(***************************************************************************)
EXTENDS Integers, Sequences, FiniteSets, TLC

(***************************************************************************)
(* Bounds of the model.                                                    *)
(***************************************************************************)
\* number of ingestion runs that get as far as holding both record sets
MaxRuns == 4
\* retain counts of the scheduled prune (8 and 16 in the source), scaled to
\* the number of versions the small upstream universe can produce
OpenRetain == 1
MergedRetain == 2
\* runs of the specification with fairness
MaxLiveRuns == 2

\* installation-token requests one process issues, and invalidations
MaxMints == 3
MaxInvalidations == 2

\* the token clock: seconds per step, the last instant, and the lifetime the
\* upstream grants a token
TickSeconds == 30
MaxClock == 91
TokenLifetimeSeconds == 120

\* calls of executeWithRetries one process makes
MaxOperations == 2

\* length of the raw result list handed to a payload builder
MaxRawLen == 3

\* length of the merged history handed to computeWaitEstimate, the number of
\* most recent records it keeps (50 in the code, scaled), and the greatest
\* value its rounding is searched up to
MaxHistoryLen == 3
SampleSize == 2
MaxEstimate == 31
\* the latest clock value at which an overlapping run starts
MaxOverlapClock == 2

\* the page size of the open listing (100 in the code, scaled) and the
\* longest listing upstream holds
PageSize == 2
MaxListingLen == 5

\* the page size of the merged search (100 in the code, scaled) and the
\* number of pages after which the walk stops collecting (10 in the code)
GraphqlPageSize == 2
SearchCapPages == 2

\* length of the merged set handed to buildWeeklyMergedSummary
MaxWeeklyLen == 3

\* length of the raw list handed to buildOpenPrPayload
MaxOpenLen == 4

\* direct calls of the dataset cache, the largest retain count passed to a
\* prune, and how far a caller's nowIso may lie behind the clock
MaxCacheCalls == 3
MaxCacheRetain == 2
NowIsoLag == 2

(***************************************************************************)
(* Optional values: null is the empty tuple, a value x is <<x>>.           *)
(***************************************************************************)
None == <<>>
Some(x) == <<x>>
IsNone(o) == o = <<>>
IsSome(o) == o # <<>>
Val(o) == o[1]

(***************************************************************************)
(* Names.                                                                  *)
(***************************************************************************)
OPEN_QUEUE_DATASET == "queue-open"
MERGED_HISTORY_DATASET == "queue-merged"
Datasets == {OPEN_QUEUE_DATASET, MERGED_HISTORY_DATASET}

\* the two entry points that start a run: the cron handler and /api/trigger
Scheduled == "scheduled"
Trigger == "trigger"
Runs == {Scheduled, Trigger}

(***************************************************************************)
(* The upstream universe: the pull requests GitHub can list.               *)
(***************************************************************************)
\* raw open items (issues endpoint, label "Ready for review")
OpenItems ==
  { [number |-> 101, pull_request |-> TRUE, created_at |-> 2,
     labels |-> {"plugin", "Ready for review"}] }

\* raw merged items (GraphQL search)
MergedItems ==
  { [number |-> 201, createdAt |-> 0, mergedAt |-> 1, labels |-> {"plugin"},
     commitsTotal |-> 1, changedFiles |-> 1],
    [number |-> 202, createdAt |-> 1, mergedAt |-> 2, labels |-> {"plugin"},
     commitsTotal |-> 0, changedFiles |-> 0] }

REVIEW_TYPES == {"plugin", "theme"}

resolveTypeFromLabels(labels) ==
  IF labels \cap REVIEW_TYPES = {} THEN "unknown"
  ELSE IF "plugin" \in labels THEN "plugin" ELSE "theme"

resolvePrType(pr) == resolveTypeFromLabels(pr.labels)

(***************************************************************************)
(* Sequence helpers.                                                       *)
(***************************************************************************)
RECURSIVE InsertAsc(_, _, _)
\* x placed before the first element whose field f is strictly greater
InsertAsc(x, s, f) ==
  IF s = <<>> THEN <<x>>
  ELSE IF x[f] < Head(s)[f] THEN <<x>> \o s
  ELSE <<Head(s)>> \o InsertAsc(x, Tail(s), f)

RECURSIVE SortAsc(_, _)
\* Array.prototype.sort with the comparator a[f] - b[f] (stable)
SortAsc(s, f) ==
  IF s = <<>> THEN <<>>
  ELSE InsertAsc(s[Len(s)], SortAsc(SubSeq(s, 1, Len(s) - 1), f), f)

RECURSIVE ListByNumberDesc(_)
\* the order in which upstream lists the items of a result set
ListByNumberDesc(S) ==
  IF S = {} THEN <<>>
  ELSE LET x == CHOOSE y \in S : \A z \in S : y.number >= z.number
       IN <<x>> \o ListByNumberDesc(S \ {x})

(***************************************************************************)
(* Payload construction (worker/ingest.ts).                                *)
(***************************************************************************)
mapOpenPr(pr) ==
  [id |-> pr.number, type |-> resolvePrType(pr), createdAt |-> pr.created_at]

RECURSIVE MapOpen(_)
MapOpen(s) == IF s = <<>> THEN <<>> ELSE <<mapOpenPr(Head(s))>> \o MapOpen(Tail(s))

IsKnownTypeAlways(pr) == TRUE
IsKnownType(pr) == pr.type # "unknown"

\* variant: the mapped records are returned in upstream order
buildOpenPrPayloadUnsorted(prs) ==
  SelectSeq(MapOpen(prs), IsKnownType)

buildOpenPrPayload(prs) ==
  SortAsc(SelectSeq(MapOpen(prs), IsKnownType), "createdAt")

RECURSIVE DedupeByNumber(_, _)
DedupeByNumber(s, seen) ==
  IF s = <<>> THEN <<>>
  ELSE IF Head(s).number \in seen THEN DedupeByNumber(Tail(s), seen)
  ELSE <<Head(s)>> \o DedupeByNumber(Tail(s), seen \cup {Head(s).number})

NotGhost(pr) == ~(pr.commitsTotal = 0 \/ pr.changedFiles = 0)

\* timestamps of the model are whole days, so the rounded day difference is
\* the difference
mapMergedPr(pr) ==
  [id |-> pr.number, type |-> resolveTypeFromLabels(pr.labels),
   createdAt |-> pr.createdAt, mergedAt |-> pr.mergedAt,
   daysToMerge |-> pr.mergedAt - pr.createdAt]

RECURSIVE MapMerged(_)
MapMerged(s) ==
  IF s = <<>> THEN <<>> ELSE <<mapMergedPr(Head(s))>> \o MapMerged(Tail(s))

buildMergedPrPayloadKeepingRepeats(prs) ==
  SortAsc(MapMerged(SelectSeq(prs, NotGhost)), "mergedAt")

buildMergedPrPayload(prs) ==
  SortAsc(MapMerged(SelectSeq(DedupeByNumber(prs, {}), NotGhost)), "mergedAt")

RECURSIVE LatestFrom(_, _)
LatestFrom(merged, latest) ==
  IF merged = <<>> THEN latest
  ELSE LatestFrom(Tail(merged),
         IF IsNone(latest) \/ Head(merged).mergedAt > Val(latest)
         THEN Some(Head(merged).mergedAt) ELSE latest)

computeLatestMergedAt(merged) == LatestFrom(merged, None)

\* JSON.stringify and JSON.parse of a payload
JsonStringify(value) == <<"json", value>>
JsonParseTruncating(raw) ==
  IF Len(raw) = 2 /\ raw[1] = "json" THEN Some(<<>>) ELSE None
JsonParse(raw) == IF Len(raw) = 2 /\ raw[1] = "json" THEN Some(raw[2]) ELSE None

TypeCode(t) == IF t = "plugin" THEN 1 ELSE IF t = "theme" THEN 2 ELSE 3

\* the numbers a serialised record consists of
RecordBytes(r) ==
  <<r.id, TypeCode(r.type), r.createdAt>>
    \o (IF "mergedAt" \in DOMAIN r THEN <<r.mergedAt, r.daysToMerge>> ELSE <<>>)

RECURSIVE PayloadBytes(_)
PayloadBytes(value) ==
  IF value = <<>> THEN <<>>
  ELSE RecordBytes(Head(value)) \o <<0>> \o PayloadBytes(Tail(value))

RECURSIVE DigestFrom(_, _)
DigestFrom(bytes, h) ==
  IF bytes = <<>> THEN h
  ELSE DigestFrom(Tail(bytes), (h * 31 + Head(bytes) + 1) % 65536)

\* SHA-256 hex digest of the serialised payload, modelled by a 16-bit
\* polynomial digest of its numbers; digests are fixed-width, so their
\* numeric order is the lexicographic order of the storage keys
hashStringColliding(content) == 17
hashString(content) == DigestFrom(PayloadBytes(content[2]), 17)

CountType(prs, t) == Cardinality({i \in 1..Len(prs) : prs[i].type = t})

computeTotals(openPrs) ==
  [readyTotal |-> Len(openPrs),
   readyPlugins |-> CountType(openPrs, "plugin"),
   readyThemes |-> CountType(openPrs, "theme")]

(***************************************************************************)
(* Dataset cache (worker/datasetCache.ts) over the key-value store.        *)
(* pointers[d] is the record stored under data/<d>:current (or None),      *)
(* blobs[d] maps each stored version v of d to the value and metadata      *)
(* stored under data/<d>:content:<v>.                                      *)
(***************************************************************************)
datasetPointerSchemaOk(record) ==
  /\ DOMAIN record = {"dataset", "version"}
  /\ record.dataset \in Datasets

readDatasetPointer(ptrs, dataset) ==
  IF IsNone(ptrs[dataset]) THEN None
  ELSE IF ~datasetPointerSchemaOk(Val(ptrs[dataset])) THEN None
  ELSE ptrs[dataset]

readDatasetContentDefaulting(blbs, dataset, pointer) ==
  IF pointer.version \notin DOMAIN blbs[dataset] THEN Some(<<>>)
  ELSE JsonParse(blbs[dataset][pointer.version].content)

\* kv.get(contentKey(dataset, pointer.version)) followed by JSON.parse
readDatasetContent(blbs, dataset, pointer) ==
  IF pointer.version \notin DOMAIN blbs[dataset] THEN None
  ELSE JsonParse(blbs[dataset][pointer.version].content)

readDatasetJSON(ptrs, blbs, dataset) ==
  IF IsNone(readDatasetPointer(ptrs, dataset)) THEN None
  ELSE readDatasetContent(blbs, dataset, Val(readDatasetPointer(ptrs, dataset)))

\* of the pointer record the model keeps the fields a decision reads
makePointer(dataset, version) ==
  [dataset |-> dataset, version |-> version]

\* kv.put(contentKey(...), content, {metadata: {updatedAt, ...}})
putContent(blbs, dataset, version, content, updatedAt) ==
  [blbs EXCEPT ![dataset] =
     (version :> [content |-> content, updatedAt |-> updatedAt]) @@ @]

\* kv.put(pointerKey(...), JSON.stringify(pointer))
putPointer(ptrs, dataset, pointer) ==
  [ptrs EXCEPT ![dataset] = Some(pointer)]

RECURSIVE ListKeys(_, _)
\* kv.list({prefix}): the stored versions in key order, with their metadata
ListKeys(blb, versions) ==
  IF versions = {} THEN <<>>
  ELSE LET v == CHOOSE x \in versions : \A y \in versions : x <= y
       IN <<[name |-> v, updatedAt |-> blb[v].updatedAt]>>
            \o ListKeys(blb, versions \ {v})

RECURSIVE InsertDesc(_, _)
\* x placed before the first entry that is strictly older
InsertDesc(x, s) ==
  IF s = <<>> THEN <<x>>
  ELSE IF x.updatedAt > Head(s).updatedAt THEN <<x>> \o s
  ELSE <<Head(s)>> \o InsertDesc(x, Tail(s))

RECURSIVE SortNewestFirst(_)
\* keys.sort(...): most recently updated first (every entry of the model
\* carries an updatedAt, so the comparator's branches for a missing one are
\* never taken)
SortNewestFirst(keys) ==
  IF keys = <<>> THEN <<>>
  ELSE InsertDesc(keys[Len(keys)], SortNewestFirst(SubSeq(keys, 1, Len(keys) - 1)))

\* the versions pruneDatasetVersions(kv, dataset, retain) deletes, given the
\* listing it obtained
pruneToDelete(keys, retain) ==
  IF Len(keys) <= retain THEN {}
  ELSE { SortNewestFirst(keys)[i].name : i \in (retain + 1)..Len(keys) }

deleteContent(blbs, dataset, version) ==
  [blbs EXCEPT ![dataset] =
     [v \in (DOMAIN @) \ {version} |-> @[v]]]

(***************************************************************************)
(* State.                                                                  *)
(***************************************************************************)
VARIABLES
  upOpen,       \* upstream: the open items carrying the review label
  upMerged,     \* upstream: the merged items of the repository
  summary,      \* KV: the record under "queue-summary" (or None)
  pointers,     \* KV: the current pointer of each dataset
  blobs,        \* KV: the stored versions of each dataset
  clock,        \* Date.now()
  pc,           \* position of each run
  run,          \* local variables of each run
  result,       \* the IngestResult a run returns to its entry point
  pruner,       \* the detached prune of the scheduled handler
  history,      \* what is known of the run before (relates two runs)
  cachedToken,          \* githubAuth.ts: let cachedToken
  tokenRefreshPromise,  \* githubAuth.ts: let tokenRefreshPromise
  mints,        \* the installation-token requests issued so far
  callers,      \* the pending and finished calls of getGitHubInstallationToken
  invalidations, \* how often invalidateGitHubInstallationToken has run
  exec,         \* the call of executeWithRetries in progress
  cache,        \* the call of the dataset cache made directly, and its outcome
  calc          \* the call of a payload or metrics function, and what it returned

ingestVars ==
  <<upOpen, upMerged, summary, pointers, blobs, pc, run, result, pruner,
    history>>

tokenVars == <<cachedToken, tokenRefreshPromise, mints, callers, invalidations>>

vars == <<ingestVars, clock, tokenVars, exec, cache, calc>>

\* the state the ingestion run does not touch
outsideIngest == <<tokenVars, exec, cache, calc>>

\* the state the token provider does not touch
outsideToken == <<ingestVars, exec, cache, calc>>

ISSUES_PAGE_SIZE == 100

\* the validator upstream returns with page 1 of the open listing
ETagOf(items) == { i.number : i \in items }

IdleRun ==
  [force |-> FALSE, previousSummary |-> None, ifNoneMatch |-> None,
   notModified |-> FALSE, page1ETag |-> None, openPrs |-> <<>>,
   mergedPrs |-> <<>>, pointerRead |-> None, latestMergedAt |-> None,
   nowIso |-> 0, openPointer |-> None, mergedPointer |-> None,
   openDatasetUpdated |-> FALSE, mergedDatasetUpdated |-> FALSE,
   summaryUpdated |-> FALSE, requests |-> <<>>, puts |-> <<>>, error |-> "",
   before |-> <<>>, request |-> None]

TokenCallers == {"first", "second"}

IdleCaller == [pc |-> "idle", promise |-> None, token |-> None, epoch |-> 0]

IdleExec ==
  [pc |-> "idle", attempt |-> 0, invocations |-> 0, authFailures |-> 0,
   token |-> None, lastError |-> None, errors |-> <<>>, value |-> None,
   operations |-> 0]

IdleCache ==
  [pc |-> "idle", op |-> "none", dataset |-> "", version |-> 0,
   value |-> None, updatedAt |-> 0, retain |-> 0, returned |-> None,
   deleted |-> {}, listed |-> <<>>, puts |-> <<>>, calls |-> 0,
   written |-> [d \in Datasets |-> None]]

IdleCalc == [op |-> "none", input |-> <<>>, output |-> <<>>]

IdlePruner == [pc |-> "idle", dataset |-> OPEN_QUEUE_DATASET, toDelete |-> {}]

Init ==
  /\ upOpen = {}
  /\ upMerged = {}
  /\ summary = None
  /\ pointers = [d \in Datasets |-> None]
  /\ blobs = [d \in Datasets |-> <<>>]
  /\ clock = 1
  /\ pc = [r \in Runs |-> "idle"]
  /\ run = [r \in Runs |-> IdleRun]
  /\ result = [r \in Runs |-> None]
  /\ pruner = IdlePruner
  /\ history = [lastOk |-> FALSE]
  /\ cachedToken = None
  /\ tokenRefreshPromise = None
  /\ mints = <<>>
  /\ callers = [c \in TokenCallers |-> IdleCaller]
  /\ invalidations = 0
  /\ exec = IdleExec
  /\ cache = IdleCache
  /\ calc = IdleCalc

(***************************************************************************)
(* Summary store (worker/queueStore.ts).                                   *)
(***************************************************************************)
queueSummarySchemaOk(raw) ==
  DOMAIN raw = {"checkedAt", "page1ETag", "latestMergedAt", "totals", "datasets"}

readQueueSummary(stored) ==
  IF IsNone(stored) THEN None
  ELSE IF ~queueSummarySchemaOk(Val(stored)) THEN None
  ELSE stored

(***************************************************************************)
(* The ingestion run (worker/ingest.ts, ingest).                           *)
(***************************************************************************)
previousOpenPointer(rr) ==
  IF IsNone(rr.previousSummary) THEN None
  ELSE Val(rr.previousSummary).datasets.openQueue

previousMergedPointer(rr) ==
  IF IsNone(rr.previousSummary) THEN None
  ELSE Val(rr.previousSummary).datasets.mergedHistory

\* variant: a forced run sends the stored validator as well
previousPage1ETagIgnoringForce(rr) ==
  IF IsNone(rr.previousSummary) THEN None
  ELSE Val(rr.previousSummary).page1ETag

previousPage1ETag(rr) ==
  IF rr.force \/ IsNone(rr.previousSummary) THEN None
  ELSE Val(rr.previousSummary).page1ETag

previousMergedWatermark(rr) ==
  IF IsNone(rr.previousSummary) THEN None
  ELSE Val(rr.previousSummary).latestMergedAt

openVersion(rr) == hashString(JsonStringify(rr.openPrs))
mergedVersionOfOpenSet(rr) == hashString(JsonStringify(rr.openPrs))
mergedVersion(rr) == hashString(JsonStringify(rr.mergedPrs))

\* variant: a forced run asks the tripwire as well
mergedEntryIgnoringForce(rr) ==
  IF IsNone(previousMergedPointer(rr)) THEN "fetchMerged"
  ELSE IF IsNone(previousMergedWatermark(rr)) THEN "fetchMerged"
  ELSE "tripwire"

\* where the run goes once it holds the open set: lines 701-714
mergedEntry(rr) ==
  IF rr.force \/ IsNone(previousMergedPointer(rr)) THEN "fetchMerged"
  ELSE IF IsNone(previousMergedWatermark(rr)) THEN "fetchMerged"
  ELSE "tripwire"

openNeedsWrite(rr) ==
  \/ IsNone(previousOpenPointer(rr))
  \/ Val(previousOpenPointer(rr)).version # openVersion(rr)

mergedNeedsWrite(rr) ==
  \/ IsNone(previousMergedPointer(rr))
  \/ Val(previousMergedPointer(rr)).version # mergedVersion(rr)

afterOpenWrite(rr) ==
  IF mergedNeedsWrite(rr) THEN "putMergedContent" ELSE "writeSummary"

\* the run holds both sets: lines 742-748 and 768
withBothSets(rr, merged, now) ==
  [rr EXCEPT !.mergedPrs = merged,
             !.latestMergedAt = computeLatestMergedAt(merged),
             !.nowIso = now,
             !.openPointer = previousOpenPointer(rr),
             !.mergedPointer = previousMergedPointer(rr)]

\* variant: the open pointer is put without its content
afterBothSetsPointerFirst(rr) ==
  IF openNeedsWrite(rr) THEN "putOpenPointer" ELSE afterOpenWrite(rr)

afterBothSets(rr) ==
  IF openNeedsWrite(rr) THEN "putOpenContent" ELSE afterOpenWrite(rr)

\* variant: the summary stores the validator that was sent
buildSummarySentTag(rr) ==
  [checkedAt |-> rr.nowIso,
   page1ETag |-> rr.ifNoneMatch,
   latestMergedAt |-> rr.latestMergedAt,
   totals |-> computeTotals(rr.openPrs),
   datasets |-> [openQueue |-> rr.openPointer,
                 mergedHistory |-> rr.mergedPointer]]

buildSummary(rr) ==
  [checkedAt |-> rr.nowIso,
   page1ETag |-> rr.page1ETag,
   latestMergedAt |-> rr.latestMergedAt,
   totals |-> computeTotals(rr.openPrs),
   datasets |-> [openQueue |-> rr.openPointer,
                 mergedHistory |-> rr.mergedPointer]]

successResult(rr) ==
  [ok |-> TRUE, summaryUpdated |-> rr.summaryUpdated,
   openDatasetUpdated |-> rr.openDatasetUpdated,
   mergedDatasetUpdated |-> rr.mergedDatasetUpdated,
   openDatasetVersion |-> Some(Val(rr.openPointer).version),
   mergedDatasetVersion |-> Some(Val(rr.mergedPointer).version),
   checkedAt |-> Some(rr.nowIso), forced |-> rr.force]

\* variant: a failed run that reports success
failureResultReportsOk(rr) ==
  [ok |-> TRUE, summaryUpdated |-> TRUE,
   openDatasetUpdated |-> rr.openDatasetUpdated,
   mergedDatasetUpdated |-> rr.mergedDatasetUpdated,
   openDatasetVersion |-> None, mergedDatasetVersion |-> None,
   checkedAt |-> None, forced |-> rr.force]

\* variant: the catch block returns the flags as they were at the start
failureResultWithoutFlags(rr) ==
  [ok |-> FALSE, summaryUpdated |-> FALSE,
   openDatasetUpdated |-> FALSE,
   mergedDatasetUpdated |-> FALSE,
   openDatasetVersion |-> None, mergedDatasetVersion |-> None,
   checkedAt |-> None, forced |-> rr.force]

failureResult(rr) ==
  [ok |-> FALSE, summaryUpdated |-> rr.summaryUpdated,
   openDatasetUpdated |-> rr.openDatasetUpdated,
   mergedDatasetUpdated |-> rr.mergedDatasetUpdated,
   openDatasetVersion |-> None, mergedDatasetVersion |-> None,
   checkedAt |-> None, forced |-> rr.force]

ActivePcs ==
  {"readSummary", "fetchOpen", "readOpenPointer", "readOpenContent",
   "tripwire", "fetchMerged", "readMergedPointer", "readMergedContent",
   "putOpenContent", "putOpenPointer", "putMergedContent", "putMergedPointer",
   "writeSummary"}

\* variant: the exception leaves ingest and no result is returned
caughtEscapes(r, message) ==
  /\ pc' = [pc EXCEPT ![r] = "failed"]
  /\ run' = [run EXCEPT ![r].error = message]
  /\ result' = [result EXCEPT ![r] = None]

\* the catch block of ingest: lines 838-852
caught(r, message) ==
  /\ pc' = [pc EXCEPT ![r] = "failed"]
  /\ run' = [run EXCEPT ![r].error = message]
  /\ result' = [result EXCEPT ![r] = Some(failureResult(run[r]))]

\* an entry point calls ingest(env, {force}); the cron handler passes no
\* options. The field "before" records the store as the run found it. Serial execution: the host runs one ingestion at a time, and the
\* detached prune of the tick before has finished
StartRun(r, force) ==
  /\ \A q \in Runs : pc[q] = "idle"
  /\ pruner.pc = "idle"
  /\ clock <= MaxRuns
  /\ r = Scheduled => ~force
  /\ pc' = [pc EXCEPT ![r] = "readSummary"]
  /\ run' = [run EXCEPT ![r] =
               [IdleRun EXCEPT !.force = force,
                               !.before = <<summary, pointers, blobs>>]]
  /\ result' = [result EXCEPT ![r] = None]
  /\ UNCHANGED <<outsideIngest, upOpen, upMerged, summary, pointers, blobs, clock, pruner,
                 history>>

\* lines 653-673: read the previous summary, then issue page 1
ReadSummary(r) ==
  /\ pc[r] = "readSummary"
  /\ LET rr == [run[r] EXCEPT !.previousSummary = readQueueSummary(summary)]
     IN run' = [run EXCEPT ![r] =
                  [rr EXCEPT !.ifNoneMatch = previousPage1ETag(rr)]]
  /\ pc' = [pc EXCEPT ![r] = "fetchOpen"]
  /\ UNCHANGED <<outsideIngest, upOpen, upMerged, summary, pointers, blobs,
                 clock, result, pruner, history>>

\* fetchReadyForReviewPullRequests answered "304 Not Modified": lines 382-390
\* and 675-686
FetchOpenNotModified(r) ==
  /\ pc[r] = "fetchOpen"
  /\ IsSome(run[r].ifNoneMatch)
  /\ Val(run[r].ifNoneMatch) = ETagOf(upOpen)
  /\ LET rr == [run[r] EXCEPT
                  !.requests = Append(@, "open page 1"),
                  !.notModified = TRUE,
                  !.page1ETag = run[r].ifNoneMatch]
     IN IF IsNone(previousOpenPointer(rr))
        THEN \* received 304 but no cached open dataset: retry without ETag
             /\ run' = [run EXCEPT ![r] = [rr EXCEPT !.ifNoneMatch = None]]
             /\ pc' = pc
        ELSE /\ run' = [run EXCEPT ![r] = rr]
             /\ pc' = [pc EXCEPT ![r] = "readOpenPointer"]
  /\ UNCHANGED <<outsideIngest, upOpen, upMerged, summary, pointers, blobs,
                 clock, result, pruner, history>>

\* fetchReadyForReviewPullRequests answered with the listing: lines 394-428,
\* 696-714. The universe holds fewer than ISSUES_PAGE_SIZE items, so page 1
\* is short and the page loop does not iterate.
FetchOpenListing(r) ==
  /\ pc[r] = "fetchOpen"
  /\ ~(IsSome(run[r].ifNoneMatch) /\ Val(run[r].ifNoneMatch) = ETagOf(upOpen))
  /\ Cardinality(upOpen) < ISSUES_PAGE_SIZE
  /\ LET collected == SelectSeq(ListByNumberDesc(upOpen),
                                LAMBDA item : item.pull_request)
         rr == [run[r] EXCEPT
                  !.requests = Append(@, "open page 1"),
                  !.notModified = FALSE,
                  !.page1ETag = Some(ETagOf(upOpen)),
                  !.openPrs = buildOpenPrPayload(collected)]
     IN /\ run' = [run EXCEPT ![r] = rr]
        /\ pc' = [pc EXCEPT ![r] = mergedEntry(rr)]
  /\ UNCHANGED <<outsideIngest, upOpen, upMerged, summary, pointers, blobs,
                 clock, result, pruner, history>>

\* readDatasetJSON, first read (the pointer): lines 686-694 and 732-738
ReadCachedPointer(r, d) ==
  /\ pc[r] = (IF d = OPEN_QUEUE_DATASET THEN "readOpenPointer"
                                         ELSE "readMergedPointer")
  /\ LET pointer == readDatasetPointer(pointers, d)
     IN IF IsNone(pointer)
        THEN /\ caught(r, "cached dataset unavailable")
        ELSE /\ run' = [run EXCEPT ![r].pointerRead = pointer]
             /\ pc' = [pc EXCEPT ![r] =
                         IF d = OPEN_QUEUE_DATASET THEN "readOpenContent"
                                                   ELSE "readMergedContent"]
             /\ result' = result
  /\ UNCHANGED <<outsideIngest, upOpen, upMerged, summary, pointers, blobs,
                 clock, pruner, history>>

\* readDatasetJSON, second read (the content), for the open set
ReadCachedOpen(r) ==
  /\ pc[r] = "readOpenContent"
  /\ LET cached == readDatasetContent(blobs, OPEN_QUEUE_DATASET,
                                      Val(run[r].pointerRead))
     IN IF IsNone(cached)
        THEN /\ caught(r, "cached dataset unavailable")
        ELSE LET rr == [run[r] EXCEPT !.openPrs = Val(cached)]
             IN /\ run' = [run EXCEPT ![r] = rr]
                /\ pc' = [pc EXCEPT ![r] = mergedEntry(rr)]
                /\ result' = result
  /\ UNCHANGED <<outsideIngest, upOpen, upMerged, summary, pointers, blobs,
                 clock, pruner, history>>

\* hasNewMergedPullRequests: lines 324-348 and 708-717; the tripwire query
\* counts every merged pull request of the repository after the watermark
Tripwire(r) ==
  /\ pc[r] = "tripwire"
  /\ LET changed ==
           \E item \in upMerged :
              item.mergedAt > Val(previousMergedWatermark(run[r]))
     IN /\ run' = [run EXCEPT ![r].requests = Append(@, "tripwire")]
        /\ pc' = [pc EXCEPT ![r] =
                    IF changed THEN "fetchMerged" ELSE "readMergedPointer"]
  /\ UNCHANGED <<outsideIngest, upOpen, upMerged, summary, pointers, blobs,
                 clock, result, pruner, history>>

\* fetchMergedPullRequestsGraphql and buildMergedPrPayload: lines 717-729,
\* then lines 742-748
FetchMerged(r) ==
  /\ pc[r] = "fetchMerged"
  /\ LET matching == { item \in upMerged :
                         item.labels \cap {"plugin", "theme"} # {} }
     IN run' = [run EXCEPT ![r] = withBothSets(
                  [run[r] EXCEPT !.requests = Append(@, "merged history")],
                  buildMergedPrPayload(ListByNumberDesc(matching)), clock)]
  /\ pc' = [pc EXCEPT ![r] = afterBothSets(run'[r])]
  /\ clock' = clock + 1
  /\ UNCHANGED <<outsideIngest, upOpen, upMerged, summary, pointers, blobs,
                 result, pruner, history>>

\* readDatasetJSON, second read, for the merged set, then lines 742-748
ReadCachedMerged(r) ==
  /\ pc[r] = "readMergedContent"
  /\ LET cached == readDatasetContent(blobs, MERGED_HISTORY_DATASET,
                                      Val(run[r].pointerRead))
     IN IF IsNone(cached)
        THEN /\ caught(r, "cached dataset unavailable")
             /\ clock' = clock
        ELSE LET rr == withBothSets(run[r], Val(cached), clock)
             IN /\ run' = [run EXCEPT ![r] = rr]
                /\ pc' = [pc EXCEPT ![r] = afterBothSets(rr)]
                /\ result' = result
                /\ clock' = clock + 1
  /\ UNCHANGED <<outsideIngest, upOpen, upMerged, summary, pointers, blobs, pruner, history>>

datasetOfPc(p) ==
  IF p \in {"putOpenContent", "putOpenPointer"} THEN OPEN_QUEUE_DATASET
  ELSE MERGED_HISTORY_DATASET

\* writeDatasetVersion, first put (the content): datasetCache.ts lines 158-166
PutContent(r) ==
  /\ pc[r] \in {"putOpenContent", "putMergedContent"}
  /\ LET d == datasetOfPc(pc[r])
         value == IF d = OPEN_QUEUE_DATASET THEN run[r].openPrs
                                            ELSE run[r].mergedPrs
         version == IF d = OPEN_QUEUE_DATASET THEN openVersion(run[r])
                                              ELSE mergedVersion(run[r])
     IN /\ blobs' = putContent(blobs, d, version, JsonStringify(value),
                               run[r].nowIso)
        /\ run' = [run EXCEPT ![r].puts = Append(@, <<"content", d>>)]
        /\ pc' = [pc EXCEPT ![r] =
                    IF d = OPEN_QUEUE_DATASET THEN "putOpenPointer"
                                              ELSE "putMergedPointer"]
  /\ UNCHANGED <<outsideIngest, upOpen, upMerged, summary, pointers, clock,
                 result, pruner, history>>

\* writeDatasetVersion, second put (the pointer): datasetCache.ts line 168,
\* then ingest.ts lines 762 and 782
PutPointer(r) ==
  /\ pc[r] \in {"putOpenPointer", "putMergedPointer"}
  /\ LET d == datasetOfPc(pc[r])
         version == IF d = OPEN_QUEUE_DATASET THEN openVersion(run[r])
                                              ELSE mergedVersion(run[r])
         pointer == makePointer(d, version)
         rr == IF d = OPEN_QUEUE_DATASET
               THEN [run[r] EXCEPT !.openPointer = Some(pointer),
                                   !.openDatasetUpdated = TRUE,
                                   !.puts = Append(@, <<"pointer", d>>)]
               ELSE [run[r] EXCEPT !.mergedPointer = Some(pointer),
                                   !.mergedDatasetUpdated = TRUE,
                                   !.puts = Append(@, <<"pointer", d>>)]
     IN /\ pointers' = putPointer(pointers, d, pointer)
        /\ run' = [run EXCEPT ![r] = rr]
        /\ pc' = [pc EXCEPT ![r] =
                    IF d = OPEN_QUEUE_DATASET THEN afterOpenWrite(rr)
                                              ELSE "writeSummary"]
  /\ UNCHANGED <<outsideIngest, upOpen, upMerged, summary, blobs, clock, result, pruner, history>>

\* writeQueueSummary and the return of the result: lines 808-837
WriteSummary(r) ==
  /\ pc[r] = "writeSummary"
  /\ summary' = Some(buildSummary(run[r]))
  /\ LET rr == [run[r] EXCEPT !.summaryUpdated = TRUE,
                              !.puts = Append(@, <<"summary", "queue-summary">>)]
     IN /\ run' = [run EXCEPT ![r] = rr]
        /\ result' = [result EXCEPT ![r] = Some(successResult(rr))]
  /\ pc' = [pc EXCEPT ![r] = "done"]
  /\ UNCHANGED <<outsideIngest, upOpen, upMerged, pointers, blobs, clock, pruner, history>>

\* an awaited call of the run rejects: an upstream request whose error
\* executeWithRetries raises, or a read or write of the store
Throw(r) ==
  /\ pc[r] \in ActivePcs
  /\ caught(r, pc[r])
  /\ UNCHANGED <<outsideIngest, upOpen, upMerged, summary, pointers, blobs,
                 clock, pruner, history>>

\* the host ends the invocation at its deadline: nothing of the run executes
\* any more, no result is returned and no prune is started
CutOff(r) ==
  /\ pc[r] \in ActivePcs
  /\ pc' = [pc EXCEPT ![r] = "idle"]
  /\ run' = [run EXCEPT ![r] = IdleRun]
  /\ history' = [history EXCEPT !.lastOk = FALSE]
  /\ UNCHANGED <<outsideIngest, upOpen, upMerged, summary, pointers, blobs,
                 clock, result, pruner>>

\* the entry point receives the result; the cron handler then hands the
\* prune to ctx.waitUntil: index.ts lines 23-40
Finish(r) ==
  /\ pc[r] \in {"done", "failed"}
  /\ pc' = [pc EXCEPT ![r] = "idle"]
  /\ run' = [run EXCEPT ![r] = IdleRun]
  /\ history' = [history EXCEPT !.lastOk = (pc[r] = "done")]
  /\ result' = [result EXCEPT ![r] = None]
  /\ pruner' = IF r = Scheduled
               THEN [pc |-> "list", dataset |-> OPEN_QUEUE_DATASET,
                     toDelete |-> {}]
               ELSE pruner
  /\ UNCHANGED <<outsideIngest, upOpen, upMerged, summary, pointers, blobs, clock>>

(***************************************************************************)
(* The detached prune of the scheduled handler (worker/index.ts 31-40).    *)
(***************************************************************************)
retainOf(dataset) ==
  IF dataset = OPEN_QUEUE_DATASET THEN OpenRetain ELSE MergedRetain

\* what follows the prune of one dataset
prunerAfter(dataset) ==
  IF dataset = OPEN_QUEUE_DATASET
  THEN [pc |-> "list", dataset |-> MERGED_HISTORY_DATASET, toDelete |-> {}]
  ELSE IdlePruner

\* pruneDatasetVersions up to the sort: datasetCache.ts lines 178-218
PruneList ==
  /\ pruner.pc = "list"
  /\ LET d == pruner.dataset
         doomed == pruneToDelete(ListKeys(blobs[d], DOMAIN blobs[d]),
                                 retainOf(d))
     IN pruner' = IF doomed = {} THEN prunerAfter(d)
                  ELSE [pc |-> "delete", dataset |-> d, toDelete |-> doomed]
  /\ UNCHANGED <<outsideIngest, upOpen, upMerged, summary, pointers, blobs,
                 clock, pc, run, result, history>>

\* one of the kv.delete calls of line 219 takes effect
PruneDelete(version) ==
  /\ pruner.pc = "delete"
  /\ version \in pruner.toDelete
  /\ blobs' = deleteContent(blobs, pruner.dataset, version)
  /\ pruner' = IF pruner.toDelete = {version} THEN prunerAfter(pruner.dataset)
               ELSE [pruner EXCEPT !.toDelete = @ \ {version}]
  /\ UNCHANGED <<outsideIngest, upOpen, upMerged, summary, pointers, clock, pc,
                 run, result, history>>

\* variant: a failed prune that also drops the current pointers
PruneThrowDropsPointers ==
  /\ pruner.pc \in {"list", "delete"}
  /\ pruner' = IdlePruner
  /\ pointers' = [d \in Datasets |-> None]
  /\ UNCHANGED <<outsideIngest, upOpen, upMerged, summary, blobs,
                 clock, pc, run, result, history>>

\* a call of the store rejects inside the prune: the catch of index.ts 36-38
PruneThrow ==
  /\ pruner.pc \in {"list", "delete"}
  /\ pruner' = IdlePruner
  /\ UNCHANGED <<outsideIngest, upOpen, upMerged, summary, pointers, blobs,
                 clock, pc, run, result, history>>

(***************************************************************************)
(* The upstream changes.                                                   *)
(***************************************************************************)
\* between two runs the upstream data changes (a change during a run has the
\* effect of one before the request it precedes)
UpstreamChange(open, merged) ==
  /\ \A r \in Runs : pc[r] = "idle"
  /\ <<open, merged>> # <<upOpen, upMerged>>
  /\ upOpen' = open
  /\ upMerged' = merged
  /\ history' = [history EXCEPT !.lastOk = FALSE]
  /\ UNCHANGED <<outsideIngest, summary, pointers, blobs, clock, pc, run, result, pruner>>

Next ==
  \/ \E r \in Runs, force \in BOOLEAN : StartRun(r, force)
  \/ \E r \in Runs : ReadSummary(r)
  \/ \E r \in Runs : FetchOpenNotModified(r)
  \/ \E r \in Runs : FetchOpenListing(r)
  \/ \E r \in Runs, d \in Datasets : ReadCachedPointer(r, d)
  \/ \E r \in Runs : ReadCachedOpen(r)
  \/ \E r \in Runs : Tripwire(r)
  \/ \E r \in Runs : FetchMerged(r)
  \/ \E r \in Runs : ReadCachedMerged(r)
  \/ \E r \in Runs : PutContent(r)
  \/ \E r \in Runs : PutPointer(r)
  \/ \E r \in Runs : WriteSummary(r)
  \/ \E r \in Runs : Throw(r)
  \/ \E r \in Runs : CutOff(r)
  \/ \E r \in Runs : Finish(r)
  \/ PruneList
  \/ \E version \in DOMAIN blobs[pruner.dataset] : PruneDelete(version)
  \/ PruneThrow
  \/ \E open \in SUBSET OpenItems, merged \in SUBSET MergedItems :
        UpstreamChange(open, merged)

Spec == Init /\ [][Next]_vars

(***************************************************************************)
(* Properties of the ingestion run, the cache and the prune.               *)
(***************************************************************************)
SummaryPut == <<"summary", "queue-summary">>

\* C1: when a run fails or is cut off before its summary write completes, the
\* stored summary, both cache pointers and every stored dataset blob are what
\* they were when the run started.
C1_FailedRunLeavesStoreUntouched ==
  [][\A r \in Runs :
       (pc[r] \in ActivePcs /\ pc'[r] \in {"failed", "idle"})
          => <<summary', pointers', blobs'>> = run[r].before]_vars

\* C2: at the moment a run writes the summary, the blob named by each of the
\* summary's two dataset pointers exists in the cache.
C2_SummaryPointersExistWhenWritten ==
  [][\A r \in Runs :
       (pc[r] = "writeSummary" /\ pc'[r] = "done")
          => /\ Val(Val(summary').datasets.openQueue).version
                   \in DOMAIN blobs'[OPEN_QUEUE_DATASET]
             /\ Val(Val(summary').datasets.mergedHistory).version
                   \in DOMAIN blobs'[MERGED_HISTORY_DATASET]]_vars

\* C3: a prune never deletes the blob whose version the dataset's current
\* pointer references, even when other stored versions are newer.
C3_PruneKeepsCurrentVersion ==
  [][\A d \in Datasets :
       (/\ pruner.pc = "delete"
        /\ IsSome(pointers[d])
        /\ Val(pointers[d]).version \in DOMAIN blobs[d])
          => Val(pointers[d]).version \in DOMAIN blobs'[d]]_vars

\* what C4 asks of the second of two runs against the same upstream data
SameAsFirstRun(rr, written) ==
  LET first == Val(rr.previousSummary)
  IN /\ rr.puts = <<SummaryPut>>
     /\ ~rr.openDatasetUpdated
     /\ ~rr.mergedDatasetUpdated
     /\ written.totals = first.totals
     /\ Val(written.datasets.openQueue).version
          = Val(first.datasets.openQueue).version
     /\ Val(written.datasets.mergedHistory).version
          = Val(first.datasets.mergedHistory).version

\* C4: a run that follows a successful run against the same upstream data,
\* forced or not, writes no blob and no pointer, reports both datasets as not
\* updated and writes a summary with the same totals and dataset versions.
C4_SecondRunIsNoOp ==
  \A r \in Runs :
     (pc[r] = "done" /\ history.lastOk) => SameAsFirstRun(run[r], Val(summary))

\* C5: a non-forced run that is answered "not modified" on page 1 writes no
\* open-set blob and no open-set pointer, requests no further open-set page,
\* and keeps the open-set version of the previous summary.
C5_NotModifiedLeavesOpenSet ==
  \A r \in Runs :
     (pc[r] = "done" /\ run[r].notModified /\ ~run[r].force)
        => /\ \A i \in 1..Len(run[r].puts) :
                 run[r].puts[i][2] # OPEN_QUEUE_DATASET
           /\ Len(SelectSeq(run[r].requests,
                            LAMBDA q : q = "open page 1")) = 1
           /\ Val(Val(summary).datasets.openQueue).version
                = Val(previousOpenPointer(run[r])).version

FetchSteps == {"fetchOpen", "tripwire", "fetchMerged"}

\* C6: when the open-set fetch or the merged-set fetch (its tripwire query
\* included) ends in an error, the run returns ok = false, writes no summary,
\* and the stored summary is the one the run found.
C6_FailedFetchKeepsSummary ==
  \A r \in Runs :
     (pc[r] = "failed" /\ run[r].error \in FetchSteps)
        => /\ ~Val(result[r]).ok
           /\ ~Val(result[r]).summaryUpdated
           /\ \A i \in 1..Len(run[r].puts) : run[r].puts[i] # SummaryPut
           /\ summary = run[r].before[1]

\* C6 happens: the merged fetch fails after the open fetch succeeded, with a
\* summary of an earlier run in the store
C6_MergedFetchFailedAfterOpen ==
  \E r \in Runs :
     /\ pc[r] = "failed"
     /\ run[r].error = "fetchMerged"
     /\ Len(run[r].requests) >= 1
     /\ IsSome(summary)

\* C7: a run that finds the cached pointer or blob missing when it would reuse
\* it refetches the dataset instead of failing.
C7_MissingCacheIsRefetched ==
  \A r \in Runs :
     ~(pc[r] = "failed" /\ run[r].error = "cached dataset unavailable")

(***************************************************************************)
(* The installation-token provider (worker/githubAuth.ts).                 *)
(***************************************************************************)
TOKEN_REFRESH_BUFFER_SECONDS == 60

requestInstallationTokenWithoutBuffer(id, expiresAt) ==
  [value |-> id, exp |-> expiresAt]

\* requestInstallationToken: the TokenCache built from the upstream's answer
\* to request number id, whose expires_at is expiresAt
requestInstallationToken(id, expiresAt) ==
  [value |-> id, exp |-> expiresAt - TOKEN_REFRESH_BUFFER_SECONDS]

PendingMints == { m \in DOMAIN mints : mints[m].state = "pending" }

\* getGitHubInstallationToken up to its await: lines 266-285
GetTokenCall(c) ==
  /\ callers[c].pc # "awaiting"
  /\ IF IsSome(cachedToken) /\ Val(cachedToken).exp > clock
     THEN /\ callers' = [callers EXCEPT ![c] =
                          [pc |-> "returned", promise |-> None,
                           token |-> Some(Val(cachedToken).value),
                           epoch |-> invalidations]]
          /\ UNCHANGED <<tokenRefreshPromise, mints>>
     ELSE IF IsNone(tokenRefreshPromise)
     THEN /\ Len(mints) < MaxMints
          /\ mints' = Append(mints, [state |-> "pending",
                                     epoch |-> invalidations,
                                     expiresAt |-> 0])
          /\ tokenRefreshPromise' = Some(Len(mints) + 1)
          /\ callers' = [callers EXCEPT ![c] =
                          [pc |-> "awaiting", promise |-> Some(Len(mints) + 1),
                           token |-> None, epoch |-> invalidations]]
     ELSE /\ callers' = [callers EXCEPT ![c] =
                          [pc |-> "awaiting", promise |-> tokenRefreshPromise,
                           token |-> None, epoch |-> invalidations]]
          /\ UNCHANGED <<tokenRefreshPromise, mints>>
  /\ UNCHANGED <<outsideToken, clock, cachedToken, invalidations>>

\* the upstream answers request m with a token: the .then of lines 274-278
MintResolve(m) ==
  /\ m \in PendingMints
  /\ mints' = [mints EXCEPT ![m].state = "resolved",
                            ![m].expiresAt = clock + TokenLifetimeSeconds]
  /\ cachedToken' =
       Some(requestInstallationToken(m, clock + TokenLifetimeSeconds))
  /\ tokenRefreshPromise' = None
  /\ UNCHANGED <<outsideToken, clock, callers, invalidations>>

\* request m fails: the .catch of lines 279-282
MintReject(m) ==
  /\ m \in PendingMints
  /\ mints' = [mints EXCEPT ![m].state = "rejected"]
  /\ tokenRefreshPromise' = None
  /\ UNCHANGED <<outsideToken, clock, cachedToken, callers, invalidations>>

\* the await of line 285 completes and the call returns token.value or throws
CallerResume(c) ==
  /\ callers[c].pc = "awaiting"
  /\ LET m == Val(callers[c].promise)
     IN /\ mints[m].state # "pending"
        /\ callers' = [callers EXCEPT ![c] =
             IF mints[m].state = "resolved"
             THEN [@ EXCEPT !.pc = "returned", !.token = Some(m)]
             ELSE [@ EXCEPT !.pc = "threw"]]
  /\ UNCHANGED <<outsideToken, clock, cachedToken, tokenRefreshPromise, mints,
                 invalidations>>

\* invalidateGitHubInstallationToken: lines 289-292
Invalidate ==
  /\ invalidations < MaxInvalidations
  /\ cachedToken' = None
  /\ tokenRefreshPromise' = None
  /\ invalidations' = invalidations + 1
  /\ UNCHANGED <<outsideToken, clock, mints, callers>>

\* time passes
Tick ==
  /\ clock < MaxClock
  /\ clock' = clock + TickSeconds
  /\ UNCHANGED <<outsideToken, tokenVars>>

NextToken ==
  \/ \E c \in TokenCallers : GetTokenCall(c)
  \/ \E m \in DOMAIN mints : MintResolve(m)
  \/ \E m \in DOMAIN mints : MintReject(m)
  \/ \E c \in TokenCallers : CallerResume(c)
  \/ Invalidate
  \/ Tick

SpecToken == Init /\ [][NextToken]_vars

\* C8: at most one installation-token request is in flight at any time,
\* whatever the interleaving of getToken calls and invalidations; a caller
\* arriving during a refresh issues no request of its own.
C8_OneRefreshInFlight == Cardinality(PendingMints) <= 1

\* C9: a getToken call made after an invalidation never returns a token whose
\* request was issued before that invalidation.
C9_NoTokenFromBeforeInvalidation ==
  \A c \in TokenCallers :
     callers[c].pc = "returned"
        => mints[Val(callers[c].token)].epoch >= callers[c].epoch

(***************************************************************************)
(* The retry executor and the request hooks (worker/ingest.ts).            *)
(***************************************************************************)
RETRYABLE_STATUS_CODES == {429, 500, 502, 503, 504}
MAX_RETRY_ATTEMPTS == 5

\* what one call of the operation can end in: a response, a RequestError with
\* or without a status, or another Error with a message
Ok == [kind |-> "ok", status |-> Some(200), message |-> ""]
RequestError(status) ==
  [kind |-> "RequestError", status |-> status, message |-> ""]
Error(message) == [kind |-> "Error", status |-> None, message |-> message]

TokenRequestFailed == Error("GitHub installation token request failed")

Failures ==
  { RequestError(Some(st)) : st \in {400, 401, 403, 429, 501, 503} }
    \cup { RequestError(None), Error("Network request failed"),
           Error("Request Timeout"), Error("Unexpected end of JSON input") }

\* message.toLowerCase().includes(fragment), for the messages of the universe
includes(message, fragment) ==
  fragment \in
    (CASE message = "Network request failed" -> {"network"}
       [] message = "Request Timeout" -> {"timeout"}
       [] message = "Service temporarily unavailable" ->
            {"temporarily unavailable"}
       [] OTHER -> {})

\* variant: every error is retried
isRetryableErrorAlways(error) == TRUE

isRetryableError(error) ==
  IF error.kind = "RequestError"
  THEN IF IsNone(error.status) THEN TRUE
       ELSE Val(error.status) \in RETRYABLE_STATUS_CODES
  ELSE \/ includes(error.message, "timeout")
       \/ includes(error.message, "temporarily unavailable")
       \/ includes(error.message, "network")

\* the condition of the error hook: lines 631-634
isAuthorizationError(error) ==
  /\ error.kind = "RequestError"
  /\ IsSome(error.status)
  /\ Val(error.status) \in {401, 403}

Hook == "first"

\* executeWithRetries is called and enters its loop with attempt = 1
StartOperation ==
  /\ exec.pc \in {"idle", "returned", "threw"}
  /\ exec.operations < MaxOperations
  /\ callers[Hook].pc # "awaiting"
  /\ exec' = [IdleExec EXCEPT !.pc = "invoke", !.attempt = 1,
                              !.operations = exec.operations + 1]
  /\ callers' = [callers EXCEPT ![Hook] = IdleCaller]
  /\ UNCHANGED <<calc, cache, ingestVars, clock, cachedToken, tokenRefreshPromise, mints,
                 invalidations>>

\* operation() is invoked: the request enters the before hook (line 622)
Invoke ==
  /\ exec.pc = "invoke"
  /\ exec' = [exec EXCEPT !.pc = "hook", !.invocations = @ + 1]
  /\ callers' = [callers EXCEPT ![Hook] = IdleCaller]
  /\ UNCHANGED <<calc, cache, ingestVars, clock, cachedToken, tokenRefreshPromise, mints,
                 invalidations>>

\* the before hook awaits the token
HookGetToken ==
  /\ exec.pc = "hook"
  /\ callers[Hook].pc = "idle"
  /\ GetTokenCall(Hook)

\* variant: the executor retries whatever the error is
afterErrorRetriesAll(ex, error) ==
  IF ex.attempt = MAX_RETRY_ATTEMPTS
  THEN [ex EXCEPT !.pc = "threw", !.lastError = Some(error),
                  !.errors = Append(@, error)]
  ELSE [ex EXCEPT !.pc = "wait", !.lastError = Some(error),
                  !.errors = Append(@, error)]

\* variant: the executor gives up one attempt early
afterErrorGivesUpEarly(ex, error) ==
  IF ~isRetryableError(error) \/ ex.attempt >= MAX_RETRY_ATTEMPTS - 1
  THEN [ex EXCEPT !.pc = "threw", !.lastError = Some(error),
                  !.errors = Append(@, error)]
  ELSE [ex EXCEPT !.pc = "wait", !.lastError = Some(error),
                  !.errors = Append(@, error)]

\* the catch of executeWithRetries: lines 171-184
afterError(ex, error) ==
  IF ~isRetryableError(error) \/ ex.attempt = MAX_RETRY_ATTEMPTS
  THEN [ex EXCEPT !.pc = "threw", !.lastError = Some(error),
                  !.errors = Append(@, error)]
  ELSE [ex EXCEPT !.pc = "wait", !.lastError = Some(error),
                  !.errors = Append(@, error)]

\* the request is sent with the token and answered
RequestOk ==
  /\ exec.pc = "hook"
  /\ callers[Hook].pc = "returned"
  /\ exec' = [exec EXCEPT !.pc = "returned", !.token = callers[Hook].token,
                          !.value = Some(Ok)]
  /\ UNCHANGED <<calc, cache, ingestVars, clock, tokenVars>>

\* the request fails: the error hook (lines 630-638), then the catch
RequestFails(error) ==
  /\ exec.pc = "hook"
  /\ callers[Hook].pc = "returned"
  /\ LET ex == [exec EXCEPT !.token = callers[Hook].token,
                            !.authFailures =
                               IF isAuthorizationError(error) THEN @ + 1 ELSE @]
     IN exec' = afterError(ex, error)
  /\ IF isAuthorizationError(error)
     THEN /\ cachedToken' = None
          /\ tokenRefreshPromise' = None
          /\ invalidations' = invalidations + 1
     ELSE UNCHANGED <<cachedToken, tokenRefreshPromise, invalidations>>
  /\ UNCHANGED <<calc, cache, ingestVars, clock, mints, callers>>

\* the before hook throws because no token could be obtained
HookFails ==
  /\ exec.pc = "hook"
  /\ callers[Hook].pc = "threw"
  /\ exec' = afterError(exec, TokenRequestFailed)
  /\ UNCHANGED <<calc, cache, ingestVars, clock, tokenVars>>

\* the wait of line 185 ends and the loop goes to the next attempt
Backoff ==
  /\ exec.pc = "wait"
  /\ exec' = [exec EXCEPT !.pc = "invoke", !.attempt = @ + 1]
  /\ UNCHANGED <<calc, cache, ingestVars, clock, tokenVars>>

NextRetry ==
  \/ StartOperation
  \/ Invoke
  \/ HookGetToken
  \/ \E m \in DOMAIN mints : MintResolve(m)
  \/ \E m \in DOMAIN mints : MintReject(m)
  \/ CallerResume(Hook)
  \/ RequestOk
  \/ \E error \in Failures : RequestFails(error)
  \/ HookFails
  \/ Backoff

SpecRetry == Init /\ [][NextRetry]_vars

\* C10: a call that fails with HTTP 401 or 403 is retried exactly once with a
\* fresh token; the executor raises an authorization error only after that
\* retry failed with an authorization error too.
C10_AuthorizationErrorRetriedOnce ==
  (exec.pc = "threw" /\ isAuthorizationError(Val(exec.lastError)))
     => exec.authFailures = 2

\* the errors the executor is to retry, written out: the five listed statuses,
\* a RequestError without a status, and a message naming a timeout, a
\* temporary unavailability or the network
ListedRetryable(error) ==
  \/ /\ error.kind = "RequestError"
     /\ IsSome(error.status)
     /\ Val(error.status) \in {429, 500, 502, 503, 504}
  \/ error.kind = "RequestError" /\ IsNone(error.status)
  \/ /\ error.kind = "Error"
     /\ error.message \in {"Network request failed", "Request Timeout",
                           "Service temporarily unavailable"}

\* C11: an operation that fails k < maxAttempts times with a retryable error
\* and then succeeds is invoked exactly k + 1 times and its payload returned;
\* an operation whose first failure is not retryable is invoked exactly once
\* and that error is raised.
C11_RetryThenSucceedOrFailFast ==
  /\ exec.pc = "returned"
       => /\ \A i \in 1..Len(exec.errors) : ListedRetryable(exec.errors[i])
          /\ Len(exec.errors) < MAX_RETRY_ATTEMPTS
          /\ exec.invocations = Len(exec.errors) + 1
          /\ exec.value = Some(Ok)
  /\ (exec.pc = "threw" /\ ~ListedRetryable(exec.errors[1]))
       => /\ exec.invocations = 1
          /\ exec.lastError = Some(exec.errors[1])

\* C11 happens: three 503 answers, then a 200 whose payload is returned
C11_Three503ThenOk ==
  /\ exec.pc = "returned"
  /\ exec.errors = <<RequestError(Some(503)), RequestError(Some(503)),
                     RequestError(Some(503))>>
  /\ exec.invocations = 4

\* the retry decision the executor took on the failure of an attempt that
\* was not the last one
RetriedLastError == exec.pc = "wait"
DecidedOnError ==
  exec.pc \in {"wait", "threw"} /\ exec.attempt < MAX_RETRY_ATTEMPTS

C13_ExhaustionRaisesLastError ==
  (/\ exec.pc = "threw"
   /\ \A i \in 1..Len(exec.errors) : ListedRetryable(exec.errors[i]))
     => /\ exec.invocations = MAX_RETRY_ATTEMPTS
        /\ Len(exec.errors) = MAX_RETRY_ATTEMPTS
        /\ exec.lastError = Some(exec.errors[MAX_RETRY_ATTEMPTS])

\* C13 happens: five retryable failures, the last one a 429
C13_FiveRetryableFailures ==
  /\ exec.pc = "threw"
  /\ Len(exec.errors) = 5
  /\ \A i \in 1..4 : exec.errors[i] = RequestError(Some(503))
  /\ exec.errors[5] = RequestError(Some(429))
  /\ exec.invocations = 5

(***************************************************************************)
(* The ingestion run under fair scheduling: an awaited call of a run that  *)
(* is not cut off always settles, and the entry point always resumes.      *)
(***************************************************************************)
\* the steps of run r that the event loop takes once the awaited call settles
Progress(r) ==
  \/ ReadSummary(r)
  \/ FetchOpenNotModified(r)
  \/ FetchOpenListing(r)
  \/ \E d \in Datasets : ReadCachedPointer(r, d)
  \/ ReadCachedOpen(r)
  \/ Tripwire(r)
  \/ FetchMerged(r)
  \/ ReadCachedMerged(r)
  \/ PutContent(r)
  \/ PutPointer(r)
  \/ WriteSummary(r)
  \/ Finish(r)

StartLiveRun(r, force) ==
  /\ clock <= MaxLiveRuns
  /\ StartRun(r, force)

NextLive ==
  \/ \E r \in Runs, force \in BOOLEAN : StartLiveRun(r, force)
  \/ \E r \in Runs : Progress(r)
  \/ \E r \in Runs : Throw(r)
  \/ \E r \in Runs : CutOff(r)
  \/ PruneList
  \/ \E version \in DOMAIN blobs[pruner.dataset] : PruneDelete(version)
  \/ PruneThrow
  \/ \E open \in SUBSET OpenItems, merged \in SUBSET MergedItems :
        UpstreamChange(open, merged)

SpecLive ==
  Init /\ [][NextLive]_vars /\ WF_vars(\E r \in Runs : Progress(r))

RunInProgress == \E r \in Runs : pc[r] # "idle"

\* C14: every run ends by returning a result object, whatever call failed
\* inside it (ok exactly when the run completed), and a started run is always
\* followed by a state in which no run is in progress, so the next can start.
C14_RunAlwaysReturnsResult ==
  /\ [](\A r \in Runs :
          pc[r] \in {"done", "failed"}
             => /\ IsSome(result[r])
                /\ Val(result[r]).ok = (pc[r] = "done"))
  /\ RunInProgress ~> ~RunInProgress

\* C14 happens: a store write of the run rejected and the run returned its
\* failure result
C14_StoreWriteFailedAndReturned ==
  \E r \in Runs :
     /\ pc[r] = "failed"
     /\ run[r].error \in {"putOpenContent", "putOpenPointer", "writeSummary"}
     /\ IsSome(result[r])

(***************************************************************************)
(* The dataset cache called directly (worker/datasetCache.ts): one call at *)
(* a time of writeDatasetJSON, readDatasetJSON or pruneDatasetVersions,    *)
(* over a namespace that may hold entries this code did not write.         *)
(***************************************************************************)
\* the names a caller may pass: the two datasets and one the pattern rejects
CacheNames == Datasets \cup {"queue open"}

\* DATASET_NAME_PATTERN.test(dataset), over the names of the model
assertValidDatasetName(dataset) ==
  CASE dataset = "queue-open" -> TRUE
    [] dataset = "queue-merged" -> TRUE
    [] dataset = "queue open" -> FALSE
    [] OTHER -> FALSE

\* the payloads ingest can hand to the cache
CacheValues ==
  { buildOpenPrPayload(ListByNumberDesc(S)) : S \in SUBSET OpenItems }
    \cup { buildMergedPrPayload(ListByNumberDesc(S)) : S \in SUBSET MergedItems }

\* a key this code never derives from a payload
ForeignVersion == 7

\* what the namespace holds when the first call is made: nothing, a pointer
\* record that is not a DatasetPointer, a pointer to a blob that is gone, a
\* pointer to a blob that is not JSON
KvSeeds ==
  { [pointers |-> [d \in Datasets |-> None],
     blobs |-> [d \in Datasets |-> <<>>]],
    [pointers |-> [d \in Datasets |->
                     IF d = OPEN_QUEUE_DATASET
                     THEN Some([dataset |-> OPEN_QUEUE_DATASET]) ELSE None],
     blobs |-> [d \in Datasets |-> <<>>]],
    [pointers |-> [d \in Datasets |->
                     IF d = OPEN_QUEUE_DATASET
                     THEN Some(makePointer(d, ForeignVersion)) ELSE None],
     blobs |-> [d \in Datasets |-> <<>>]],
    [pointers |-> [d \in Datasets |->
                     IF d = OPEN_QUEUE_DATASET
                     THEN Some(makePointer(d, ForeignVersion)) ELSE None],
     blobs |-> [d \in Datasets |->
                  IF d = OPEN_QUEUE_DATASET
                  THEN (ForeignVersion :> [content |-> <<"text">>, updatedAt |-> 0])
                  ELSE <<>>]] }

InitCache ==
  /\ \E seed \in KvSeeds : pointers = seed.pointers /\ blobs = seed.blobs
  /\ upOpen = {}
  /\ upMerged = {}
  /\ summary = None
  /\ clock = 1
  /\ pc = [r \in Runs |-> "idle"]
  /\ run = [r \in Runs |-> IdleRun]
  /\ result = [r \in Runs |-> None]
  /\ pruner = IdlePruner
  /\ history = [lastOk |-> FALSE]
  /\ cachedToken = None
  /\ tokenRefreshPromise = None
  /\ mints = <<>>
  /\ callers = [c \in TokenCallers |-> IdleCaller]
  /\ invalidations = 0
  /\ exec = IdleExec
  /\ cache = IdleCache
  /\ calc = IdleCalc

\* the state a direct cache call does not touch
outsideCache ==
  <<upOpen, upMerged, summary, pc, run, result, pruner, history, tokenVars,
    exec, calc>>

CacheCallAllowed ==
  /\ cache.pc \in {"idle", "returned", "threw"}
  /\ cache.calls < MaxCacheCalls

NewCacheCall(op, dataset) ==
  [IdleCache EXCEPT !.op = op, !.dataset = dataset,
                    !.calls = cache.calls + 1, !.written = cache.written]

\* writeDatasetJSON up to and including kv.put of the content; the version
\* is the one ingest passes, the digest of the serialised value, and
\* updatedAt the caller's nowIso, taken up to NowIsoLag ticks earlier
WriteDatasetJSON(dataset, value, updatedAt) ==
  /\ CacheCallAllowed
  /\ LET content == JsonStringify(value)
         version == hashString(content)
         call == [NewCacheCall("write", dataset) EXCEPT
                    !.version = version, !.value = Some(value),
                    !.updatedAt = updatedAt]
     IN IF ~assertValidDatasetName(dataset)
        THEN /\ cache' = [call EXCEPT !.pc = "threw"]
             /\ UNCHANGED blobs
        ELSE /\ blobs' = putContent(blobs, dataset, version, content, updatedAt)
             /\ cache' = [call EXCEPT !.pc = "writing", !.puts = <<"content">>,
                                      !.written[dataset] = None]
  /\ clock' = clock + 1
  /\ UNCHANGED <<outsideCache, pointers>>

\* kv.put of the pointer, and the return of the pointer
WritePointer ==
  /\ cache.pc = "writing"
  /\ pointers' = putPointer(pointers, cache.dataset,
                            makePointer(cache.dataset, cache.version))
  /\ cache' = [cache EXCEPT !.pc = "returned", !.puts = Append(@, "pointer"),
                            !.written[cache.dataset] = cache.value]
  /\ UNCHANGED <<outsideCache, blobs, clock>>

\* kv.put of the pointer rejects
WritePointerRejected ==
  /\ cache.pc = "writing"
  /\ cache' = [cache EXCEPT !.pc = "threw"]
  /\ UNCHANGED <<outsideCache, pointers, blobs, clock>>

\* readDatasetJSON, whole
ReadDatasetJSON(dataset) ==
  /\ CacheCallAllowed
  /\ cache' = IF assertValidDatasetName(dataset)
              THEN [NewCacheCall("read", dataset) EXCEPT
                      !.pc = "returned",
                      !.returned = readDatasetJSON(pointers, blobs, dataset)]
              ELSE [NewCacheCall("read", dataset) EXCEPT !.pc = "threw"]
  /\ UNCHANGED <<outsideCache, pointers, blobs, clock>>

\* pruneDatasetVersions, whole, with no other call in between
PruneDatasetVersions(dataset, retain) ==
  /\ CacheCallAllowed
  /\ LET call == [NewCacheCall("prune", dataset) EXCEPT !.retain = retain]
     IN IF retain < 0 \/ ~assertValidDatasetName(dataset)
        THEN /\ cache' = [call EXCEPT !.pc = "threw"]
             /\ UNCHANGED blobs
        ELSE LET keys == ListKeys(blobs[dataset], DOMAIN blobs[dataset])
                 toDelete == pruneToDelete(keys, retain)
             IN /\ blobs' = [blobs EXCEPT ![dataset] =
                               [v \in (DOMAIN @) \ toDelete |-> @[v]]]
                /\ cache' = [call EXCEPT !.pc = "returned", !.listed = keys,
                                         !.deleted = toDelete,
                                         !.written[dataset] = None]
  /\ UNCHANGED <<outsideCache, pointers, clock>>

NextCache ==
  \/ \E dataset \in CacheNames, value \in CacheValues,
        updatedAt \in (clock - NowIsoLag)..clock :
       updatedAt >= 0 /\ WriteDatasetJSON(dataset, value, updatedAt)
  \/ WritePointer
  \/ WritePointerRejected
  \/ \E dataset \in CacheNames : ReadDatasetJSON(dataset)
  \/ \E dataset \in CacheNames, retain \in (-1)..MaxCacheRetain :
       PruneDatasetVersions(dataset, retain)

SpecCache == InitCache /\ [][NextCache]_vars

(***************************************************************************)
(* Claims about the dataset cache.                                         *)
(***************************************************************************)
\* C15: a read of a dataset that follows a completed write of value X to it,
\* with no write or prune of that dataset in between, returns X
C15_WriteThenReadReturnsValue ==
  ( /\ cache.op = "read"
    /\ cache.pc = "returned"
    /\ IsSome(cache.written[cache.dataset]) )
  => cache.returned = cache.written[cache.dataset]

\* C15 happens: a non-empty payload was written and then read back
C15_ReadBackNonEmptyPayload ==
  /\ cache.op = "read"
  /\ cache.pc = "returned"
  /\ IsSome(cache.written[cache.dataset])
  /\ Val(cache.written[cache.dataset]) # <<>>
  /\ cache.returned = cache.written[cache.dataset]

\* C16: while a version of a dataset stays stored, its content is the same
\* after every step, a repeated write of the version included
C16_StoredContentNeverChanges ==
  [][\A d \in Datasets :
       \A v \in (DOMAIN blobs[d]) \cap (DOMAIN blobs'[d]) :
         blobs'[d][v].content = blobs[d][v].content]_vars

\* C16 happens: a run has put again a version that was stored when the run
\* started (its metadata carries the run's time), with the same content
C16_VersionWrittenAgain ==
  \E r \in Runs, d \in Datasets :
    /\ pc[r] \in {"done", "failed"}
    /\ run[r].before # <<>>
    /\ \E v \in (DOMAIN blobs[d]) \cap (DOMAIN run[r].before[3][d]) :
         /\ blobs[d][v].updatedAt # run[r].before[3][d][v].updatedAt
         /\ blobs[d][v].content = run[r].before[3][d][v].content

\* what a finished prune listed, and the version the pointer names
PrunedListing == { cache.listed[i].name : i \in 1..Len(cache.listed) }
PrunedStamp(v) ==
  (CHOOSE i \in 1..Len(cache.listed) : cache.listed[i].name = v).updatedAt
PrunedCurrent ==
  IF IsSome(readDatasetPointer(pointers, cache.dataset))
  THEN {Val(readDatasetPointer(pointers, cache.dataset)).version} \cap PrunedListing
  ELSE {}

\* C17: a prune with retain count n >= 1 of a dataset whose current version
\* is stored keeps that version and the n - 1 most recently updated other
\* versions, and deletes every other version
C17_PruneKeepsCurrentAndNewestOthers ==
  ( /\ cache.op = "prune"
    /\ cache.pc = "returned"
    /\ cache.retain >= 1
    /\ PrunedCurrent # {} )
  => LET kept == DOMAIN blobs[cache.dataset]
         others == PrunedListing \ PrunedCurrent
         keptOthers == kept \cap others
     IN /\ kept \subseteq PrunedListing
        /\ PrunedCurrent \subseteq kept
        /\ Cardinality(keptOthers) =
             IF Cardinality(others) < cache.retain - 1
             THEN Cardinality(others) ELSE cache.retain - 1
        /\ \A k \in keptOthers, x \in others \ kept :
             PrunedStamp(k) >= PrunedStamp(x)

\* C18: a write whose version already has a stored blob under the dataset
\* puts no blob: the stored blob and its metadata stay as they were
C18_RepeatedWritePutsNoBlob ==
  [][( /\ cache.pc # "writing"
       /\ cache'.op = "write"
       /\ cache'.pc = "writing"
       /\ cache'.version \in DOMAIN blobs[cache'.dataset] )
     => /\ blobs' = blobs
        /\ cache'.puts = <<>>]_vars

\* the four conditions of the store under which a read has nothing to return
PointerAbsent(name) == name \notin DOMAIN pointers \/ IsNone(pointers[name])
PointerFailsValidation(name) ==
  /\ ~PointerAbsent(name)
  /\ ~datasetPointerSchemaOk(Val(pointers[name]))
BlobMissing(name) ==
  /\ ~PointerAbsent(name)
  /\ ~PointerFailsValidation(name)
  /\ Val(pointers[name]).version \notin DOMAIN blobs[name]
BlobUnparsable(name) ==
  /\ ~PointerAbsent(name)
  /\ ~PointerFailsValidation(name)
  /\ ~BlobMissing(name)
  /\ IsNone(JsonParse(blobs[name][Val(pointers[name]).version].content))
NothingToRead(name) ==
  \/ PointerAbsent(name)
  \/ PointerFailsValidation(name)
  \/ BlobMissing(name)
  \/ BlobUnparsable(name)

\* a read has finished and the store is as the read found it
ReadFinished == cache.op = "read" /\ cache.pc \in {"returned", "threw"}

WritesSummary(r) == pc[r] = "writeSummary" /\ pc'[r] = "done"

\* the greatest mergedAt of a non-empty merged set
MaxMergedAt(prs) ==
  CHOOSE m \in { prs[i].mergedAt : i \in 1..Len(prs) } :
    \A i \in 1..Len(prs) : prs[i].mergedAt <= m

\* C21: the latestMergedAt of a written summary is the greatest mergedAt of
\* the run's merged set, and the previous summary's latestMergedAt when that
\* set is empty
C21_WatermarkIsMaxOrPrevious ==
  [][\A r \in Runs :
       WritesSummary(r)
       => Val(summary').latestMergedAt =
            IF run[r].mergedPrs # <<>>
            THEN Some(MaxMergedAt(run[r].mergedPrs))
            ELSE IF IsSome(summary) THEN Val(summary).latestMergedAt
            ELSE None]_vars

(***************************************************************************)
(* Runs over an upstream that also lists open items without a type label.  *)
(***************************************************************************)
\* raw open items that carry the review label but neither "plugin" nor
\* "theme"
UnlabelledOpenItems ==
  { [number |-> 102, pull_request |-> TRUE, created_at |-> 1,
     labels |-> {"Ready for review"}] }

NextLabels ==
  \/ \E r \in Runs, force \in BOOLEAN : StartLiveRun(r, force)
  \/ \E r \in Runs : Progress(r)
  \/ \E r \in Runs : Throw(r)
  \/ \E r \in Runs : CutOff(r)
  \/ PruneList
  \/ \E version \in DOMAIN blobs[pruner.dataset] : PruneDelete(version)
  \/ PruneThrow
  \/ \E open \in SUBSET (OpenItems \cup UnlabelledOpenItems),
        merged \in SUBSET MergedItems :
        UpstreamChange(open, merged)

SpecLabels == Init /\ [][NextLabels]_vars

AllTyped(prs) == \A i \in 1..Len(prs) : prs[i].type \in {"plugin", "theme"}

\* C22: every record of every stored open-set blob, and of the open set a
\* written summary's totals are counted from, has type plugin or theme, and
\* the totals count exactly those records
C22_NoUnknownTypeStoredOrCounted ==
  [][/\ \A v \in DOMAIN blobs'[OPEN_QUEUE_DATASET] :
          AllTyped(blobs'[OPEN_QUEUE_DATASET][v].content[2])
     /\ \A r \in Runs :
          WritesSummary(r)
          => /\ AllTyped(run[r].openPrs)
             /\ Val(summary').totals.readyTotal = Len(run[r].openPrs)
             /\ Val(summary').totals.readyPlugins + Val(summary').totals.readyThemes
                  = Val(summary').totals.readyTotal]_vars

\* C22 happens: upstream listed an item without a type label next to a
\* plugin; the run fetched both, stored one record and counted one
C22_UnlabelledItemDropped ==
  \E r \in Runs :
    /\ pc[r] = "done"
    /\ Cardinality(upOpen) = 2
    /\ run[r].requests # <<>>
    /\ run[r].requests[1] = "open page 1"
    /\ Len(run[r].openPrs) = 1
    /\ IsSome(summary)
    /\ Val(summary).totals.readyTotal = 1
    /\ IsSome(pointers[OPEN_QUEUE_DATASET])
    /\ Val(pointers[OPEN_QUEUE_DATASET]).version \in DOMAIN blobs[OPEN_QUEUE_DATASET]
    /\ Len(blobs[OPEN_QUEUE_DATASET][Val(pointers[OPEN_QUEUE_DATASET]).version].content[2]) = 1

(***************************************************************************)
(* The payload and metrics functions called directly, on inputs drawn from *)
(* bounded sets.                                                           *)
(***************************************************************************)
\* what the merged search can return: the items of MergedItems, a theme, and
\* item 201 as a later result page reports it after its label was changed
RawMergedResults ==
  MergedItems \cup
  { [number |-> 203, createdAt |-> 0, mergedAt |-> 2, labels |-> {"theme"},
     commitsTotal |-> 2, changedFiles |-> 3],
    [number |-> 201, createdAt |-> 0, mergedAt |-> 1, labels |-> {"theme"},
     commitsTotal |-> 1, changedFiles |-> 1] }

\* the lists of at most n elements of S
SeqsUpTo(S, n) == UNION { [1..k -> S] : k \in 0..n }

\* buildMergedPrPayload(prs, logger); each behaviour makes one call
BuildMergedPayload(prs) ==
  /\ calc.op = "none"
  /\ calc' = [op |-> "buildMergedPrPayload", input |-> prs,
              output |-> buildMergedPrPayload(prs)]
  /\ UNCHANGED <<ingestVars, clock, tokenVars, exec, cache>>

\* C23: in the merged set built from any list of raw results, duplicates
\* included, every record has daysToMerge >= 0 and no two records share an
\* id
C23_MergedSetNonNegativeUniqueIds ==
  calc.op = "buildMergedPrPayload"
  => /\ \A i \in 1..Len(calc.output) : calc.output[i].daysToMerge >= 0
     /\ \A i, j \in 1..Len(calc.output) :
          calc.output[i].id = calc.output[j].id => i = j

\* C23 happens: the raw list repeated a number and the built set holds it
\* once, next to another record
C23_DuplicateResultKeptOnce ==
  /\ calc.op = "buildMergedPrPayload"
  /\ \E i, j \in 1..Len(calc.input) :
       i # j /\ calc.input[i].number = calc.input[j].number
             /\ calc.input[i] # calc.input[j]
  /\ Len(calc.output) = 2

(***************************************************************************)
(* worker/metrics.ts.  Timestamps are whole days.  The mean of a sample is *)
(* the fraction sum / n and its population standard deviation is           *)
(* sqrt(spread) / n with spread = n * (sum of squares) - sum^2, so every   *)
(* comparison below is one between integers.                               *)
(***************************************************************************)
VELOCITY_WEEKS == 12

RECURSIVE SumDays(_)
SumDays(prs) ==
  IF prs = <<>> THEN 0 ELSE Head(prs).daysToMerge + SumDays(Tail(prs))

RECURSIVE SumSquares(_)
SumSquares(prs) ==
  IF prs = <<>> THEN 0
  ELSE Head(prs).daysToMerge * Head(prs).daysToMerge + SumSquares(Tail(prs))

calculateStats(prs) ==
  IF Len(prs) = 0 THEN [nan |-> TRUE, n |-> 0, sum |-> 0, spread |-> 0]
  ELSE [nan |-> FALSE, n |-> Len(prs), sum |-> SumDays(prs),
        spread |-> Len(prs) * SumSquares(prs) - SumDays(prs) * SumDays(prs)]

\* k - 1/2 <= mean
HalfBelowMean(k, st) == 2 * st.n * k - st.n <= 2 * st.sum

\* k - 1/2 <= mean + stdDev
HalfBelowMeanPlusDev(k, st) ==
  LET a == 2 * st.n * k - st.n - 2 * st.sum
  IN a <= 0 \/ a * a <= 4 * st.spread

\* k - 1/2 <= mean - stdDev
HalfBelowMeanMinusDev(k, st) ==
  LET b == 2 * st.sum + st.n - 2 * st.n * k
  IN b >= 0 /\ 4 * st.spread <= b * b

\* Math.round(x): the greatest integer k with k - 1/2 <= x
RoundRange == (0 - MaxEstimate)..MaxEstimate
MathRoundMean(st) ==
  CHOOSE k \in RoundRange : HalfBelowMean(k, st) /\ ~HalfBelowMean(k + 1, st)
MathRoundMeanPlusDev(st) ==
  CHOOSE k \in RoundRange :
    HalfBelowMeanPlusDev(k, st) /\ ~HalfBelowMeanPlusDev(k + 1, st)
MathRoundMeanMinusDev(st) ==
  CHOOSE k \in RoundRange :
    HalfBelowMeanMinusDev(k, st) /\ ~HalfBelowMeanMinusDev(k + 1, st)

MathMax(a, b) == IF a >= b THEN a ELSE b

\* recentMerged.slice(-count)
sliceFirst(s, count) ==
  IF Len(s) <= count THEN s ELSE SubSeq(s, 1, count)
sliceLast(s, count) ==
  IF Len(s) <= count THEN s ELSE SubSeq(s, Len(s) - count + 1, Len(s))

\* lines 51-55: mean > 0 and stdDev / mean > 0.5
isHighVarianceAboveOne(st) ==
  ~st.nan /\ st.sum > 0 /\ st.spread > st.sum * st.sum
isHighVariance(st) ==
  ~st.nan /\ st.sum > 0 /\ 4 * st.spread > st.sum * st.sum

computeWaitEstimate(mergedHistory, type, now) ==
  LET twelveWeeksAgo == now - VELOCITY_WEEKS * 7
      recentMerged ==
        SelectSeq(mergedHistory,
                  LAMBDA pr : pr.type = type /\ pr.mergedAt > twelveWeeksAgo)
      last50Merged == sliceLast(recentMerged, SampleSize)
      stats == calculateStats(last50Merged)
      estimated == Len(recentMerged) > 0 /\ ~stats.nan
  IN [estimatedDays |-> IF estimated THEN Some(MathRoundMean(stats)) ELSE None,
      range |->
        [lower |-> IF estimated
                   THEN Some(MathMax(0, MathRoundMeanMinusDev(stats)))
                   ELSE None,
         upper |-> IF estimated THEN Some(MathRoundMeanPlusDev(stats))
                   ELSE None],
      isHighVariance |-> isHighVariance(stats)]

\* the day computeWaitEstimate is called on, and the merged records a
\* history can hold: merged on the first day outside the window, the first
\* inside it and a recent one
Today == 100
HistoryRecords ==
  { [id |-> 300 + 10 * d + (m % 10), type |-> t, createdAt |-> m - d,
     mergedAt |-> m, daysToMerge |-> d] :
      t \in {"plugin", "theme"}, m \in {16, 17, 60}, d \in {0, 1, 5, 20} }

\* a stored merged set is ordered by mergedAt (buildMergedPrPayload sorts)
Histories ==
  { h \in SeqsUpTo(HistoryRecords, MaxHistoryLen) :
      \A i \in 1..(Len(h) - 1) : h[i].mergedAt <= h[i + 1].mergedAt }

ComputeWaitEstimate(mergedHistory, type) ==
  /\ calc.op = "none"
  /\ calc' = [op |-> "computeWaitEstimate",
              input |-> [history |-> mergedHistory, type |-> type],
              output |-> computeWaitEstimate(mergedHistory, type, Today)]
  /\ UNCHANGED <<ingestVars, clock, tokenVars, exec, cache>>

(***************************************************************************)
(* The page walk of the open listing (worker/ingest.ts 394-428), with the  *)
(* page size as a parameter.                                               *)
(***************************************************************************)
\* the raw items upstream returns for page n of the listing
pageOf(listing, n, perPage) ==
  SubSeq(listing, (n - 1) * perPage + 1,
         IF n * perPage < Len(listing) THEN n * perPage ELSE Len(listing))

isPullRequest(item) == item.pull_request

RECURSIVE walkPages(_, _, _, _, _)
\* the request of page `page` and the loop test that follows it: page 1 is
\* lines 365-398, the later pages lines 403-425
walkPages(listing, page, collected, requested, perPage) ==
  LET pageItems == SelectSeq(pageOf(listing, page, perPage), isPullRequest)
      previousPageSize == Len(pageItems)
  IN IF previousPageSize = perPage
     THEN walkPages(listing, page + 1, collected \o pageItems,
                    Append(requested, page), perPage)
     ELSE [prs |-> collected \o pageItems,
           requested |-> Append(requested, page)]

\* fetchReadyForReviewPullRequests when page 1 is answered with a listing
fetchReadyForReviewPages(listing, perPage) ==
  walkPages(listing, 1, <<>>, <<>>, perPage)

\* the listings upstream can hold: pull requests and plain issues in any
\* order, numbered by position
Listings ==
  UNION { { [i \in 1..n |-> [number |-> i, pull_request |-> f[i]]] :
              f \in [1..n -> BOOLEAN] } : n \in 0..MaxListingLen }

FetchOpenPages(listing) ==
  /\ calc.op = "none"
  /\ calc' = [op |-> "fetchReadyForReviewPullRequests", input |-> listing,
              output |-> fetchReadyForReviewPages(listing, PageSize)]
  /\ UNCHANGED <<ingestVars, clock, tokenVars, exec, cache>>

(***************************************************************************)
(* The page walk of the merged search (worker/ingest.ts 210-313), with     *)
(* the page size and the result cap scaled.                                *)
(***************************************************************************)
\* the cap on the results the walk collects: 1000 in the code, ten pages
SearchResultCap == SearchCapPages * GraphqlPageSize

\* the most merged pull requests upstream lists for the lookback window
MaxMatching == SearchResultCap + 1

\* upstream's answer to the search after cursor `after`: the next page of the
\* matching items, their count, and whether more follow
searchPage(matching, after, first) ==
  LET last == IF after + first < Len(matching) THEN after + first
              ELSE Len(matching)
  IN [nodes |-> SubSeq(matching, after + 1, last),
      issueCount |-> Len(matching),
      hasNextPage |-> last < Len(matching),
      endCursor |-> IF last > after THEN Some(last) ELSE None]

RECURSIVE walkSearch(_, _, _, _)
\* one iteration of the while loop: lines 220-310
walkSearch(matching, afterCursor, aggregated, page) ==
  LET response == searchPage(matching, afterCursor, GraphqlPageSize)
      collected == aggregated \o response.nodes
      totalMatched == IF response.issueCount < SearchResultCap
                      THEN response.issueCount ELSE SearchResultCap
  IN IF ~response.hasNextPage \/ Len(collected) >= totalMatched
     THEN [results |-> collected, pages |-> page]
     ELSE IF IsNone(response.endCursor)
     THEN [results |-> collected, pages |-> page]
     ELSE walkSearch(matching, Val(response.endCursor), collected, page + 1)

fetchMergedPullRequestsGraphql(matching) == walkSearch(matching, 0, <<>>, 1)

\* the merged pull requests upstream lists for the window, numbered by
\* position
MatchingLists ==
  { [i \in 1..n |-> [number |-> i]] : n \in 0..MaxMatching }

FetchMergedPages(matching) ==
  /\ calc.op = "none"
  /\ calc' = [op |-> "fetchMergedPullRequestsGraphql", input |-> matching,
              output |-> fetchMergedPullRequestsGraphql(matching)]
  /\ UNCHANGED <<ingestVars, clock, tokenVars, exec, cache>>

(***************************************************************************)
(* buildWeeklyMergedSummary (worker/metrics.ts 67-111). Instants are whole *)
(* days, day 0 a Sunday; an ISO string is the fixed-width digit sequence   *)
(* of its day.                                                             *)
(***************************************************************************)
\* setDate(getDate() - getDay()) and setHours(0, 0, 0, 0)
weekStartOf(day) == day - (day % 7)

\* Date.prototype.toISOString
toISOString(day) == <<day \div 100, (day \div 10) % 10, day % 10>>

\* the order of strings that Array.prototype.sort uses by default
StringLess(a, b) ==
  \E i \in 1..Len(a) : /\ i <= Len(b)
                       /\ a[i] < b[i]
                       /\ \A j \in 1..(i - 1) : a[j] = b[j]

RECURSIVE SortStrings(_)
\* Object.keys(weeklyBuckets).sort()
SortStrings(keys) ==
  IF keys = {} THEN <<>>
  ELSE LET first == CHOOSE k \in keys :
                      \A other \in keys \ {k} : StringLess(k, other)
       IN <<first>> \o SortStrings(keys \ {first})

\* variant: records older than the cutoff are counted as well
buildWeeklyMergedSummaryKeepingAll(mergedPrs, now) ==
  LET keyOf(pr) == toISOString(weekStartOf(pr.mergedAt))
      weekStarts == SortStrings({ keyOf(mergedPrs[i]) : i \in 1..Len(mergedPrs) })
      bucket(week, type) ==
        Cardinality({ i \in 1..Len(mergedPrs) :
                        keyOf(mergedPrs[i]) = week /\ mergedPrs[i].type = type })
  IN [weekStarts |-> weekStarts,
      pluginCounts |-> [w \in 1..Len(weekStarts) |-> bucket(weekStarts[w], "plugin")],
      themeCounts |-> [w \in 1..Len(weekStarts) |-> bucket(weekStarts[w], "theme")]]

buildWeeklyMergedSummary(mergedPrs, now) ==
  LET cutoff == now - VELOCITY_WEEKS * 7
      counted == SelectSeq(mergedPrs, LAMBDA pr : ~(pr.mergedAt < cutoff))
      keyOf(pr) == toISOString(weekStartOf(pr.mergedAt))
      weekStarts == SortStrings({ keyOf(counted[i]) : i \in 1..Len(counted) })
      bucket(week, type) ==
        Cardinality({ i \in 1..Len(counted) :
                        keyOf(counted[i]) = week /\ counted[i].type = type })
  IN [weekStarts |-> weekStarts,
      pluginCounts |-> [w \in 1..Len(weekStarts) |-> bucket(weekStarts[w], "plugin")],
      themeCounts |-> [w \in 1..Len(weekStarts) |-> bucket(weekStarts[w], "theme")]]

\* the merged records a weekly summary is built from: merged on the last
\* day outside the window, the first inside it, later in that week, in the
\* week after, and in two recent weeks
WeeklyRecords ==
  { [id |-> 400 + m, type |-> t, createdAt |-> m, mergedAt |-> m,
     daysToMerge |-> 0] :
      t \in {"plugin", "theme"}, m \in {15, 16, 20, 23, 95, 99} }

BuildWeeklyMergedSummary(mergedPrs) ==
  /\ calc.op = "none"
  /\ calc' = [op |-> "buildWeeklyMergedSummary", input |-> mergedPrs,
              output |-> buildWeeklyMergedSummary(mergedPrs, Today)]
  /\ UNCHANGED <<ingestVars, clock, tokenVars, exec, cache>>

\* raw open items as the listing can return them: three creation instants,
\* two items created at the same instant, one item without a type label
RawOpenResults ==
  { [number |-> 111, pull_request |-> TRUE, created_at |-> 1,
     labels |-> {"plugin", "Ready for review"}],
    [number |-> 112, pull_request |-> TRUE, created_at |-> 2,
     labels |-> {"theme", "Ready for review"}],
    [number |-> 113, pull_request |-> TRUE, created_at |-> 3,
     labels |-> {"plugin", "Ready for review"}],
    [number |-> 114, pull_request |-> TRUE, created_at |-> 2,
     labels |-> {"Ready for review"}],
    [number |-> 115, pull_request |-> TRUE, created_at |-> 2,
     labels |-> {"plugin", "Ready for review"}] }

\* buildOpenPrPayload(prs); each behaviour makes one call
BuildOpenPayload(prs) ==
  /\ calc.op = "none"
  /\ calc' = [op |-> "buildOpenPrPayload", input |-> prs,
              output |-> buildOpenPrPayload(prs)]
  /\ UNCHANGED <<ingestVars, clock, tokenVars, exec, cache>>

NextPure ==
  \/ \E prs \in SeqsUpTo(RawMergedResults, MaxRawLen) : BuildMergedPayload(prs)
  \/ \E h \in Histories, type \in {"plugin", "theme"} :
       ComputeWaitEstimate(h, type)
  \/ \E listing \in Listings : FetchOpenPages(listing)
  \/ \E matching \in MatchingLists : FetchMergedPages(matching)
  \/ \E mergedPrs \in SeqsUpTo(WeeklyRecords, MaxWeeklyLen) :
       BuildWeeklyMergedSummary(mergedPrs)
  \/ \E prs \in SeqsUpTo(RawOpenResults, MaxOpenLen) : BuildOpenPayload(prs)

SpecPure == Init /\ [][NextPure]_vars

(***************************************************************************)
(* Claims about the wait estimate.                                         *)
(***************************************************************************)
\* the records of the asked type inside the trailing 12-week window, by
\* their position in the history
InWindow(h, type) ==
  { i \in 1..Len(h) : h[i].type = type /\ h[i].mergedAt > Today - 12 * 7 }

\* the choices of the up-to-SampleSize most recently merged of them
RecentSamples(h, type) ==
  { I \in SUBSET InWindow(h, type) :
      /\ Cardinality(I) =
           IF Cardinality(InWindow(h, type)) < SampleSize
           THEN Cardinality(InWindow(h, type)) ELSE SampleSize
      /\ \A i \in I, j \in InWindow(h, type) \ I :
           h[i].mergedAt >= h[j].mergedAt }

RECURSIVE DaysOver(_, _)
DaysOver(h, I) ==
  IF I = {} THEN 0
  ELSE LET i == CHOOSE x \in I : TRUE
       IN h[i].daysToMerge + DaysOver(h, I \ {i})

RECURSIVE SquaresOver(_, _)
SquaresOver(h, I) ==
  IF I = {} THEN 0
  ELSE LET i == CHOOSE x \in I : TRUE
       IN h[i].daysToMerge * h[i].daysToMerge + SquaresOver(h, I \ {i})

\* n, n * mean and (n * stdDev)^2 of a sample
SampleStats(h, I) ==
  [nan |-> I = {}, n |-> Cardinality(I), sum |-> DaysOver(h, I),
   spread |-> Cardinality(I) * SquaresOver(h, I)
                - DaysOver(h, I) * DaysOver(h, I)]

\* k = round(x), for x given by its test "m - 1/2 <= x"
IsRoundOf(k, HalfBelow(_, _), st) == HalfBelow(k, st) /\ ~HalfBelow(k + 1, st)

\* C24: estimatedDays = round(mean), range = [max(0, round(mean - stdDev)),
\* round(mean + stdDev)] over the most recently merged records of the type
\* in the window, at most SampleSize of them; all three are null when no
\* record of the type lies in the window
C24_EstimateIsRoundedMeanAndSpread ==
  calc.op = "computeWaitEstimate"
  => LET h == calc.input.history
         type == calc.input.type
         out == calc.output
     IN IF InWindow(h, type) = {}
        THEN /\ out.estimatedDays = None
             /\ out.range.lower = None
             /\ out.range.upper = None
        ELSE \E I \in RecentSamples(h, type) :
               LET st == SampleStats(h, I)
               IN /\ IsSome(out.estimatedDays)
                  /\ IsRoundOf(Val(out.estimatedDays), HalfBelowMean, st)
                  /\ IsSome(out.range.upper)
                  /\ IsRoundOf(Val(out.range.upper), HalfBelowMeanPlusDev, st)
                  /\ IsSome(out.range.lower)
                  /\ \E k \in RoundRange :
                       /\ IsRoundOf(k, HalfBelowMeanMinusDev, st)
                       /\ Val(out.range.lower) = IF k < 0 THEN 0 ELSE k

\* C24 happens: three records of the type lie in the window, so the oldest
\* is left out of the sample, and the range is wider than a point
C24_OldestLeftOutOfSample ==
  /\ calc.op = "computeWaitEstimate"
  /\ Cardinality(InWindow(calc.input.history, calc.input.type)) > SampleSize
  /\ calc.input.history[1].daysToMerge # calc.input.history[2].daysToMerge
  /\ calc.input.history[1].mergedAt < calc.input.history[2].mergedAt
  /\ IsSome(calc.output.estimatedDays)
  /\ Val(calc.output.range.lower) < Val(calc.output.range.upper)

\* C25: isHighVariance is true exactly when the sample is not empty, its
\* mean is greater than 0 and stdDev / mean > 0.5
C25_HighVarianceIffSpreadOverHalfMean ==
  calc.op = "computeWaitEstimate"
  => \E I \in RecentSamples(calc.input.history, calc.input.type) :
       LET st == SampleStats(calc.input.history, I)
       IN calc.output.isHighVariance
            = (I # {} /\ st.sum > 0 /\ 4 * st.spread > st.sum * st.sum)

\* C25 happens: the sample is [1, 20] and isHighVariance is true
C25_OneAndTwentyIsHighVariance ==
  /\ calc.op = "computeWaitEstimate"
  /\ Len(calc.input.history) = 2
  /\ calc.input.history[1].daysToMerge = 1
  /\ calc.input.history[2].daysToMerge = 20
  /\ InWindow(calc.input.history, calc.input.type) = {1, 2}
  /\ calc.output.isHighVariance

\* C25 happens too: the sample is [5, 5] and isHighVariance is false
C25_EqualDaysIsNotHighVariance ==
  /\ calc.op = "computeWaitEstimate"
  /\ Len(calc.input.history) = 3
  /\ \A i \in 1..3 : calc.input.history[i].daysToMerge = 5
  /\ InWindow(calc.input.history, calc.input.type) = {1, 2, 3}
  /\ ~calc.output.isHighVariance
  /\ calc.output.estimatedDays = Some(5)
  /\ calc.output.range = [lower |-> Some(5), upper |-> Some(5)]

(***************************************************************************)
(* Claims about the token cache and expiry.                                *)
(***************************************************************************)
\* caller c makes its call of getGitHubInstallationToken in this step
CallsGetToken(c) == callers[c].pc # "awaiting" /\ callers'[c] # callers[c]

\* C26: a call is answered from the cache only while the clock is strictly
\* before the cached token's expiry minus 60 seconds; any other call waits
\* for a token request that has not been answered yet (issuing one when none
\* is in flight), and what it later returns is that request's token
C26_CacheHitOnlyBeforeBufferedExpiry ==
  [][\A c \in TokenCallers :
       /\ (CallsGetToken(c) /\ callers'[c].pc = "returned")
          => \E m \in DOMAIN mints :
               /\ callers'[c].token = Some(m)
               /\ mints[m].state = "resolved"
               /\ clock < mints[m].expiresAt - 60
       /\ (CallsGetToken(c) /\ callers'[c].pc # "returned")
          => /\ callers'[c].pc = "awaiting"
             /\ mints'[Val(callers'[c].promise)].state = "pending"
             /\ IsNone(tokenRefreshPromise) => Len(mints') = Len(mints) + 1
       /\ (callers[c].pc = "awaiting" /\ callers'[c].pc = "returned")
          => /\ callers'[c].token = callers[c].promise
             /\ mints[Val(callers[c].promise)].state = "resolved"]_vars

\* C26 happens: a call made after the cached token's buffered expiry had
\* passed returned the token of a later request
C26_RefreshedAfterExpiry ==
  \E c \in TokenCallers :
    /\ callers[c].pc = "returned"
    /\ IsSome(callers[c].token)
    /\ Val(callers[c].token) >= 2
    /\ invalidations = 0
    /\ mints[1].state = "resolved"
    /\ clock >= mints[1].expiresAt - 60
    /\ \A m \in DOMAIN mints : mints[m].state # "rejected"

(***************************************************************************)
(* Claims about the detached prune and the trigger endpoint.               *)
(***************************************************************************)
PruneStarts == pruner.pc = "idle" /\ pruner'.pc # "idle"
PruneSteps == pruner.pc # "idle" /\ pruner' # pruner

\* C27: the prune starts only in the step in which the scheduled run hands
\* back its result; no step of the prune, a failing one included, changes
\* the result, the stored summary or the pointers; and the scheduled
\* handler completes after its run has returned even if the prune never
\* takes another step
C27_PruneAfterRunAndHarmless ==
  /\ [][/\ PruneStarts
           => /\ pc[Scheduled] \in {"done", "failed"}
              /\ IsSome(result[Scheduled])
              /\ pc'[Scheduled] = "idle"
        /\ PruneSteps => UNCHANGED <<result, summary, pointers, pc, run>>]_vars
  /\ (pc[Scheduled] \in {"done", "failed"}) ~> (pc[Scheduled] = "idle")

\* C27 happens: the scheduled run has succeeded and returned, and its prune
\* is in the middle of deleting
C27_PruneDeletingAfterRunReturned ==
  /\ pruner.pc = "delete"
  /\ pc[Scheduled] = "idle"
  /\ history.lastOk
  /\ IsSome(summary)


(***************************************************************************)
(* The on-demand entry point: triggerIngest (worker/api.ts 41-93).         *)
(***************************************************************************)
\* a string is the sequence of its characters
BearerPrefix == <<"B", "e", "a", "r", "e", "r", " ">>

\* String.prototype.startsWith
startsWith(s, prefix) ==
  /\ Len(s) >= Len(prefix)
  /\ SubSeq(s, 1, Len(prefix)) = prefix

\* String.prototype.slice(n)
slice(s, n) == SubSeq(s, n + 1, Len(s))

RECURSIVE trimStart(_)
trimStart(s) ==
  IF s # <<>> /\ Head(s) = " " THEN trimStart(Tail(s)) ELSE s

RECURSIVE trimEnd(_)
trimEnd(s) ==
  IF s # <<>> /\ s[Len(s)] = " " THEN trimEnd(SubSeq(s, 1, Len(s) - 1)) ELSE s

\* String.prototype.trim
trim(s) == trimEnd(trimStart(s))

\* the Authorization headers a request can carry: none, another scheme, the
\* secret, another token, and the secret after two spaces
AuthorizationHeaders ==
  { None,
    Some(<<"B", "a", "s", "i", "c", " ", "s">>),
    Some(BearerPrefix \o <<"s">>),
    Some(BearerPrefix \o <<"w">>),
    Some(BearerPrefix \o <<" ", "s">>) }

\* env.TRIGGER_TOKEN: not configured, or the secret
TriggerTokens == { None, Some(<<"s">>) }

\* variant: any token is accepted
isAuthorizedAnyToken(token, TRIGGER_TOKEN) == token # <<>>

\* the negation of the condition of api.ts line 51
isAuthorized(token, TRIGGER_TOKEN) ==
  /\ token # <<>>
  /\ IsSome(TRIGGER_TOKEN)
  /\ Val(TRIGGER_TOKEN) # <<>>
  /\ token = Val(TRIGGER_TOKEN)

triggerRequest(authHeader, TRIGGER_TOKEN, status) ==
  [op |-> "triggerIngest", input |-> <<authHeader, TRIGGER_TOKEN>>,
   output |-> status]

\* triggerIngest up to the call of ingest: api.ts lines 41-83. calc holds
\* the request last served and the status of its response (None when it
\* started ingest); the run keeps the request it serves
TriggerIngest(authHeader, TRIGGER_TOKEN, force) ==
  LET header == IF IsNone(authHeader) THEN <<>> ELSE Val(authHeader)
  IN IF ~startsWith(header, BearerPrefix)
     THEN /\ calc' = triggerRequest(authHeader, TRIGGER_TOKEN, Some(401))
          /\ UNCHANGED <<ingestVars, clock, tokenVars, exec, cache>>
     ELSE IF ~isAuthorized(trim(slice(header, Len(BearerPrefix))),
                           TRIGGER_TOKEN)
     THEN /\ calc' = triggerRequest(authHeader, TRIGGER_TOKEN, Some(403))
          /\ UNCHANGED <<ingestVars, clock, tokenVars, exec, cache>>
     ELSE /\ \A q \in Runs : pc[q] = "idle"
          /\ pruner.pc = "idle"
          /\ clock <= MaxLiveRuns
          /\ calc' = triggerRequest(authHeader, TRIGGER_TOKEN, None)
          /\ pc' = [pc EXCEPT ![Trigger] = "readSummary"]
          /\ run' = [run EXCEPT ![Trigger] =
                       [IdleRun EXCEPT !.force = force,
                                       !.before = <<summary, pointers, blobs>>,
                                       !.request =
                                          Some(<<authHeader, TRIGGER_TOKEN>>)]]
          /\ result' = [result EXCEPT ![Trigger] = None]
          /\ UNCHANGED <<tokenVars, exec, cache, upOpen, upMerged, summary,
                         pointers, blobs, clock, pruner, history>>

\* ingest returned, or threw, and triggerIngest answers: api.ts lines 83-92
TriggerRespond ==
  /\ pc[Trigger] \in {"done", "failed"}
  /\ LET request == Val(run[Trigger].request)
     IN calc' = triggerRequest(request[1], request[2],
                  Some(IF IsSome(result[Trigger]) /\ Val(result[Trigger]).ok
                       THEN 202 ELSE 500))
  /\ pc' = [pc EXCEPT ![Trigger] = "idle"]
  /\ run' = [run EXCEPT ![Trigger] = IdleRun]
  /\ history' = [history EXCEPT !.lastOk = (pc[Trigger] = "done")]
  /\ result' = [result EXCEPT ![Trigger] = None]
  /\ UNCHANGED <<tokenVars, exec, cache, upOpen, upMerged, summary, pointers,
                 blobs, clock, pruner>>

\* the steps of the run of the on-demand entry point
TriggerProgress ==
  \/ ReadSummary(Trigger)
  \/ FetchOpenNotModified(Trigger)
  \/ FetchOpenListing(Trigger)
  \/ \E d \in Datasets : ReadCachedPointer(Trigger, d)
  \/ ReadCachedOpen(Trigger)
  \/ Tripwire(Trigger)
  \/ FetchMerged(Trigger)
  \/ ReadCachedMerged(Trigger)
  \/ PutContent(Trigger)
  \/ PutPointer(Trigger)
  \/ WriteSummary(Trigger)
  \/ TriggerRespond

\* the on-demand entry point alone: no cron tick, hence no prune
NextTrigger ==
  \/ \E authHeader \in AuthorizationHeaders, TRIGGER_TOKEN \in TriggerTokens,
        force \in BOOLEAN : TriggerIngest(authHeader, TRIGGER_TOKEN, force)
  \/ TriggerProgress
  \/ Throw(Trigger)
  \/ CutOff(Trigger)
  \/ \E open \in SUBSET OpenItems, merged \in SUBSET MergedItems :
        UpstreamChange(open, merged)

SpecTrigger == Init /\ [][NextTrigger]_vars

\* the scheme of the header is not "Bearer"
LacksBearerScheme(authHeader) ==
  \/ IsNone(authHeader)
  \/ Len(Val(authHeader)) < 7
  \/ \E i \in 1..7 : Val(authHeader)[i] # BearerPrefix[i]

\* the credentials that follow the scheme, without the separating spaces
CarriedToken(authHeader) ==
  SelectSeq(SubSeq(Val(authHeader), 8, Len(Val(authHeader))),
            LAMBDA c : c # " ")

Unauthorized(authHeader, TRIGGER_TOKEN) ==
  \/ LacksBearerScheme(authHeader)
  \/ IsNone(TRIGGER_TOKEN)
  \/ CarriedToken(authHeader) # Val(TRIGGER_TOKEN)

\* C28: a trigger request without a bearer Authorization header, with a token
\* other than the configured TRIGGER_TOKEN, or with no TRIGGER_TOKEN
\* configured is answered with 401 or 403, starts no run and changes nothing
\* that is stored; and a run of the on-demand entry point starts only on a
\* request that is none of these
C28_UnauthorizedTriggerRejected ==
  [][/\ (/\ calc' # calc
         /\ calc'.op = "triggerIngest"
         /\ Unauthorized(calc'.input[1], calc'.input[2]))
          => /\ calc'.output \in {Some(401), Some(403)}
             /\ UNCHANGED <<ingestVars, clock, tokenVars, cache>>
     /\ (pc[Trigger] = "idle" /\ pc'[Trigger] # "idle")
          => /\ calc'.op = "triggerIngest"
             /\ IsNone(calc'.output)
             /\ ~Unauthorized(calc'.input[1], calc'.input[2])]_vars

\* C28 happens: with a summary stored, a request carrying the secret is
\* refused because no TRIGGER_TOKEN is configured
C28_RefusedWhileUnconfigured ==
  /\ calc.op = "triggerIngest"
  /\ calc.output = Some(403)
  /\ calc.input = <<Some(BearerPrefix \o <<"s">>), None>>
  /\ IsSome(summary)
  /\ \A r \in Runs : pc[r] = "idle"


(***************************************************************************)
(* Overlapping runs: the host does not serialise the cron handler and the  *)
(* on-demand entry point, and upstream changes whenever it changes.        *)
(***************************************************************************)
\* ingest is entered while another run, or the prune of an earlier tick, is
\* under way
StartOverlappingRun(r, force) ==
  /\ pc[r] = "idle"
  /\ clock <= MaxOverlapClock
  /\ r = Scheduled => ~force
  /\ pc' = [pc EXCEPT ![r] = "readSummary"]
  /\ run' = [run EXCEPT ![r] =
               [IdleRun EXCEPT !.force = force,
                               !.before = <<summary, pointers, blobs>>]]
  /\ result' = [result EXCEPT ![r] = None]
  /\ UNCHANGED <<outsideIngest, upOpen, upMerged, summary, pointers, blobs,
                 clock, pruner, history>>

\* the upstream data changes, during a run or between runs
UpstreamShift(open, merged) ==
  /\ <<open, merged>> # <<upOpen, upMerged>>
  /\ upOpen' = open
  /\ upMerged' = merged
  /\ history' = [history EXCEPT !.lastOk = FALSE]
  /\ UNCHANGED <<outsideIngest, summary, pointers, blobs, clock, pc, run,
                 result, pruner>>

\* the merged pull requests upstream held when the store was filled
FirstMerged == { item \in MergedItems : item.mergedAt <= 1 }

\* the run that filled the store: a first run that listed every upstream
\* item at instant 1 and succeeded
FirstRun ==
  LET listed == [IdleRun EXCEPT
                   !.page1ETag = Some(ETagOf(OpenItems)),
                   !.openPrs = buildOpenPrPayload(ListByNumberDesc(OpenItems))]
      both == withBothSets(listed,
                buildMergedPrPayload(ListByNumberDesc(FirstMerged)), 1)
  IN [both EXCEPT
        !.openPointer = Some(makePointer(OPEN_QUEUE_DATASET, openVersion(both))),
        !.mergedPointer =
           Some(makePointer(MERGED_HISTORY_DATASET, mergedVersion(both)))]

\* the store as the first run left it, with nothing under way
InitOverlap ==
  /\ upOpen = OpenItems
  /\ upMerged = FirstMerged
  /\ summary = Some(buildSummary(FirstRun))
  /\ pointers = [d \in Datasets |->
                   IF d = OPEN_QUEUE_DATASET THEN FirstRun.openPointer
                   ELSE FirstRun.mergedPointer]
  /\ blobs = putContent(
               putContent([d \in Datasets |-> <<>>], OPEN_QUEUE_DATASET,
                          openVersion(FirstRun),
                          JsonStringify(FirstRun.openPrs), 1),
               MERGED_HISTORY_DATASET, mergedVersion(FirstRun),
               JsonStringify(FirstRun.mergedPrs), 1)
  /\ clock = 2
  /\ pc = [r \in Runs |-> "idle"]
  /\ run = [r \in Runs |-> IdleRun]
  /\ result = [r \in Runs |-> None]
  /\ pruner = IdlePruner
  /\ history = [lastOk |-> TRUE]
  /\ cachedToken = None
  /\ tokenRefreshPromise = None
  /\ mints = <<>>
  /\ callers = [c \in TokenCallers |-> IdleCaller]
  /\ invalidations = 0
  /\ exec = IdleExec
  /\ cache = IdleCache
  /\ calc = IdleCalc

\* InitOverlap is a state of the serial specification
StoreAfterFirstRun ==
  /\ upOpen = OpenItems
  /\ upMerged = FirstMerged
  /\ summary = Some(buildSummary(FirstRun))
  /\ pointers = [d \in Datasets |->
                   IF d = OPEN_QUEUE_DATASET THEN FirstRun.openPointer
                   ELSE FirstRun.mergedPointer]
  /\ DOMAIN blobs[OPEN_QUEUE_DATASET] = {openVersion(FirstRun)}
  /\ DOMAIN blobs[MERGED_HISTORY_DATASET] = {mergedVersion(FirstRun)}
  /\ clock = 2
  /\ \A r \in Runs : pc[r] = "idle"
  /\ pruner = IdlePruner
  /\ history.lastOk

\* the cron handler of the next tick finds the prune of the tick before
\* still detached: both prunes proceed, the model follows the later one
NextOverlap ==
  \/ \E r \in Runs, force \in BOOLEAN : StartOverlappingRun(r, force)
  \/ \E r \in Runs : Progress(r)
  \/ \E r \in Runs : Throw(r)
  \/ \E r \in Runs : CutOff(r)
  \/ PruneList
  \/ \E version \in DOMAIN blobs[pruner.dataset] : PruneDelete(version)
  \/ PruneThrow
  \/ \E open \in SUBSET OpenItems, merged \in {FirstMerged, MergedItems} :
        UpstreamShift(open, merged)

SpecOverlap == InitOverlap /\ [][NextOverlap]_vars


summaryPointer(d) ==
  IF d = OPEN_QUEUE_DATASET THEN Val(summary).datasets.openQueue
  ELSE Val(summary).datasets.mergedHistory

\* C29: whenever no run is in progress and the last run to finish succeeded,
\* for each dataset the version of the summary's dataset pointer is the
\* version of the cache's current pointer, also after a scheduled and an
\* on-demand run have overlapped
C29_SummaryPointersMatchCache ==
  (/\ \A r \in Runs : pc[r] = "idle"
   /\ history.lastOk
   /\ IsSome(summary))
  => \A d \in Datasets :
        /\ IsSome(summaryPointer(d))
        /\ IsSome(pointers[d])
        /\ Val(summaryPointer(d)).version = Val(pointers[d]).version


\* run r takes the open set from the cache
ReusesOpenSet(r) ==
  /\ pc[r] = "readOpenContent"
  /\ pc'[r] \notin {"readOpenContent", "failed", "idle"}

\* C30: whenever a run reuses the cached open set after "not modified", what
\* it reuses is the content of the blob that the open-set pointer of the
\* previous summary names, whatever runs came before
C30_ReusedOpenSetIsSummaryBlob ==
  [][\A r \in Runs :
       ReusesOpenSet(r)
       => LET previous == Val(previousOpenPointer(run[r]))
          IN /\ previous.version \in DOMAIN blobs[OPEN_QUEUE_DATASET]
             /\ Some(run'[r].openPrs)
                  = JsonParse(blobs[OPEN_QUEUE_DATASET][previous.version].content)]_vars


\* overlapping runs and prunes in which no call fails and no invocation is
\* cut off: only the interleaving varies
NextRace ==
  \/ \E r \in Runs, force \in BOOLEAN : StartOverlappingRun(r, force)
  \/ \E r \in Runs : Progress(r)
  \/ PruneList
  \/ \E version \in DOMAIN blobs[pruner.dataset] : PruneDelete(version)
  \/ \E open \in SUBSET OpenItems, merged \in {FirstMerged, MergedItems} :
        UpstreamShift(open, merged)

SpecRace == InitOverlap /\ [][NextRace]_vars

\* the prune and every run have finished
AllFinished ==
  /\ \A r \in Runs : pc[r] = "idle"
  /\ pruner.pc = "idle"

\* C31: for every interleaving of the detached prune with a run that writes
\* the same dataset, once both have finished the cache's current pointer of
\* each dataset names a blob that exists
C31_PointerNamesBlobAfterPruneAndRun ==
  AllFinished
  => \A d \in Datasets :
        IsSome(pointers[d]) => Val(pointers[d]).version \in DOMAIN blobs[d]


\* the puts of a run are in order: content before the pointer of the same
\* dataset, and the summary last
PutsInOrder(puts) ==
  \A i \in 1..Len(puts) :
     /\ puts[i][1] = "pointer"
          => \E j \in 1..(i - 1) : puts[j] = <<"content", puts[i][2]>>
     /\ puts[i][1] = "summary" => i = Len(puts)

\* C32: within every run each dataset write puts the blob before the cache
\* pointer, every blob and pointer put precedes the summary put, and nothing
\* is put after the summary
C32_BlobThenPointerThenSummary ==
  \A r \in Runs : PutsInOrder(run[r].puts)

\* C32 happens: a run wrote both datasets and then the summary
C32_BothDatasetsThenSummary ==
  \E r \in Runs :
     run[r].puts = << <<"content", OPEN_QUEUE_DATASET>>,
                      <<"pointer", OPEN_QUEUE_DATASET>>,
                      <<"content", MERGED_HISTORY_DATASET>>,
                      <<"pointer", MERGED_HISTORY_DATASET>>,
                      <<"summary", "queue-summary">> >>


\* the number of the first upstream page shorter than the page size
FirstShortPage(listing, perPage) == (Len(listing) \div perPage) + 1

\* C33: the open-set fetch requests page n + 1 exactly when upstream page n
\* held a full page of raw items, stops at the first shorter page, and
\* returns every pull-request item of the pages up to that one, also when
\* full pages mix pull requests with plain issues
C33_WalksToFirstShortPage ==
  calc.op = "fetchReadyForReviewPullRequests"
  => /\ calc.output.requested
          = [n \in 1..FirstShortPage(calc.input, PageSize) |-> n]
     /\ calc.output.prs = SelectSeq(calc.input, isPullRequest)


\* the previous summary of the run has a merged-set pointer and a watermark,
\* and the run is not forced
TripwireApplies(rr) ==
  /\ ~rr.force
  /\ IsSome(previousMergedPointer(rr))
  /\ IsSome(previousMergedWatermark(rr))

\* upstream holds no merged item after the watermark of the run
NothingMergedSince(rr) ==
  \A item \in upMerged : item.mergedAt <= Val(previousMergedWatermark(rr))

\* C34: the tripwire query is issued only in a non-forced run whose previous
\* summary has a merged-set pointer and a watermark; the full merged fetch
\* is skipped and the cached merged blob reused exactly when these hold and
\* the tripwire counts nothing merged since the watermark
C34_MergedReusedIffTripwireQuiet ==
  [][\A r \in Runs :
       /\ (pc[r] \in {"fetchOpen", "readOpenContent"}
             /\ pc'[r] \in {"tripwire", "fetchMerged"})
          => (pc'[r] = "tripwire" <=> TripwireApplies(run[r]))
       /\ (pc[r] = "tripwire" /\ pc'[r] \in {"fetchMerged", "readMergedPointer"})
          => /\ TripwireApplies(run[r])
             /\ pc'[r] = "readMergedPointer" <=> NothingMergedSince(run[r])
       /\ (pc[r] # "readMergedPointer" /\ pc'[r] = "readMergedPointer")
          => pc[r] = "tripwire"]_vars

\* C34 happens: a run that was not forced asked the tripwire, fetched no
\* merged history, took the merged set from the cache and succeeded
C34_QuietTripwireReusedCache ==
  \E r \in Runs :
     /\ pc[r] = "done"
     /\ ~run[r].force
     /\ \E i \in 1..Len(run[r].requests) : run[r].requests[i] = "tripwire"
     /\ \A i \in 1..Len(run[r].requests) :
           run[r].requests[i] # "merged history"
     /\ run[r].mergedPrs # <<>>


\* the positions of a run at which it asks the tripwire or reads the cache
CacheDependentPcs ==
  {"tripwire", "readOpenPointer", "readOpenContent", "readMergedPointer",
   "readMergedContent"}

C36_StoredTagIsPageOneValidator ==
  [][\A r \in Runs :
       /\ (pc[r] = "readSummary" /\ pc'[r] = "fetchOpen" /\ ~run[r].force)
          => run'[r].ifNoneMatch
               = (IF IsSome(summary) THEN Val(summary).page1ETag ELSE None)
       /\ (pc[r] = "fetchOpen" /\ pc'[r] \notin {"fetchOpen", "failed", "idle"})
          => IF run'[r].notModified
             THEN /\ IsSome(run[r].ifNoneMatch)
                  /\ run'[r].page1ETag = run[r].ifNoneMatch
             ELSE run'[r].page1ETag = Some(ETagOf(upOpen))
       /\ (pc[r] \notin {"idle", "readSummary", "fetchOpen"} /\ pc'[r] # "idle")
          => run'[r].page1ETag = run[r].page1ETag
       /\ WritesSummary(r)
          => Val(summary').page1ETag = run[r].page1ETag]_vars

\* C36 happens: a run that was answered "not modified" about a listing
\* that is not empty stored the tag it had sent
C36_SentTagStoredAgain ==
  \E r \in Runs :
     /\ pc[r] = "done"
     /\ run[r].notModified
     /\ IsSome(summary)
     /\ Val(summary).page1ETag = run[r].ifNoneMatch
     /\ Val(summary).page1ETag # Some(ETagOf({}))


\* C37: a full merged-set fetch follows the cursor page by page until
\* upstream reports no next page and returns every merged item upstream
\* lists for the window, however many match
C37_MergedWalkReturnsEveryItem ==
  calc.op = "fetchMergedPullRequestsGraphql"
  => /\ calc.output.results = calc.input
     /\ calc.output.pages
          = (IF Len(calc.input) = 0 THEN 1
             ELSE (Len(calc.input) + GraphqlPageSize - 1) \div GraphqlPageSize)


\* the day an ISO string stands for
DayOf(iso) == 100 * iso[1] + 10 * iso[2] + iso[3]

\* the records of a merged set inside the trailing window whose week starts
\* on `sunday`, by position
MergedInWeek(mergedPrs, sunday) ==
  { i \in 1..Len(mergedPrs) :
      /\ mergedPrs[i].mergedAt >= Today - 12 * 7
      /\ mergedPrs[i].mergedAt \in sunday..(sunday + 6) }

\* C38: in the weekly aggregate of every merged set the three arrays have
\* equal length, weekStarts is strictly ascending, a week start appears if
\* and only if a merged record inside the trailing window falls into that
\* week, and each count is the number of records of that type in that week
C38_WeeklyAggregateIsSparseAndSorted ==
  calc.op = "buildWeeklyMergedSummary"
  => LET weekly == calc.output
         weeks == 1..Len(weekly.weekStarts)
     IN /\ Len(weekly.pluginCounts) = Len(weekly.weekStarts)
        /\ Len(weekly.themeCounts) = Len(weekly.weekStarts)
        /\ \A w \in weeks :
             w > 1 => DayOf(weekly.weekStarts[w - 1]) < DayOf(weekly.weekStarts[w])
        /\ \A sunday \in { d \in 0..Today : d % 7 = 0 } :
             (\E w \in weeks : DayOf(weekly.weekStarts[w]) = sunday)
             <=> MergedInWeek(calc.input, sunday) # {}
        /\ \A w \in weeks :
             LET inWeek == MergedInWeek(calc.input, DayOf(weekly.weekStarts[w]))
             IN /\ weekly.pluginCounts[w]
                     = Cardinality({ i \in inWeek : calc.input[i].type = "plugin" })
                /\ weekly.themeCounts[w]
                     = Cardinality({ i \in inWeek : calc.input[i].type = "theme" })

\* C38 happens: records given newest first, one of them outside the window,
\* yield two weeks in ascending order
C38_TwoWeeksFromThreeRecords ==
  /\ calc.op = "buildWeeklyMergedSummary"
  /\ Len(calc.input) = 3
  /\ calc.input[1].mergedAt = 95
  /\ calc.input[2].mergedAt = 16
  /\ calc.input[3].mergedAt = 15
  /\ calc.output.weekStarts = <<toISOString(14), toISOString(91)>>


\* what run r put into the store
WroteSummary(r) ==
  \E i \in 1..Len(run[r].puts) : run[r].puts[i][1] = "summary"

WroteDataset(r, dataset) ==
  /\ \E i \in 1..Len(run[r].puts) : run[r].puts[i] = <<"content", dataset>>
  /\ \E i \in 1..Len(run[r].puts) : run[r].puts[i] = <<"pointer", dataset>>

\* C39: in every result a run returns, ok is true exactly when the run wrote
\* the summary and summaryUpdated says the same; openDatasetUpdated and
\* mergedDatasetUpdated are true exactly when the run put that dataset's
\* blob and pointer; a run puts the summary at most once
C39_ResultFlagsMatchWrites ==
  \A r \in Runs :
     /\ Cardinality({ i \in 1..Len(run[r].puts) :
                        run[r].puts[i][1] = "summary" }) <= 1
     /\ IsSome(result[r]) /\ pc[r] \in {"done", "failed"}
        => LET returned == Val(result[r])
           IN /\ returned.ok <=> WroteSummary(r)
              /\ returned.summaryUpdated <=> WroteSummary(r)
              /\ returned.openDatasetUpdated
                   <=> WroteDataset(r, OPEN_QUEUE_DATASET)
              /\ returned.mergedDatasetUpdated
                   <=> WroteDataset(r, MERGED_HISTORY_DATASET)

\* C39 happens: a run that put the open blob and pointer fails before the
\* summary and returns ok false with only openDatasetUpdated set
C39_FailedAfterOpenWrite ==
  \E r \in Runs :
     /\ pc[r] = "failed"
     /\ IsSome(result[r])
     /\ WroteDataset(r, OPEN_QUEUE_DATASET)
     /\ ~WroteSummary(r)
     /\ Val(result[r]).openDatasetUpdated
     /\ ~Val(result[r]).mergedDatasetUpdated
     /\ ~Val(result[r]).ok


\* C40: every open set built from a raw listing is sorted ascending by
\* createdAt, oldest record first, whatever order upstream returned the
\* items in
C40_OpenSetSortedByCreatedAt ==
  calc.op = "buildOpenPrPayload"
  => \A i, j \in 1..Len(calc.output) :
        i < j => calc.output[i].createdAt <= calc.output[j].createdAt

\* C40 happens: upstream lists three typed items newest first and the open
\* set holds them oldest first
C40_NewestFirstListingReversed ==
  /\ calc.op = "buildOpenPrPayload"
  /\ Len(calc.input) = 3
  /\ calc.input[1].number = 113
  /\ calc.input[2].number = 112
  /\ calc.input[3].number = 111
  /\ Len(calc.output) = 3
  /\ calc.output[1].id = 111
  /\ calc.output[2].id = 112
  /\ calc.output[3].id = 113

====
